---- MODULE Spec2Model ----
(***************************************************************************)
(* Model of the markup compiler core of weistn/mates: the mode-carrying    *)
(* Scanner (src/scanner.go), the Grammar (src/unnamed/part_002) and the    *)
(* Parser that builds the document tree (src/unnamed/part_003,             *)
(* src/document.go).                                                       *)
(*                                                                         *)
(* The input is a sequence of bytes; a byte is written as a one-character  *)
(* string, the bytes that are not printable ASCII by a name (NUL, x80...). *)
(* Offsets are zero-based as in the Go code: the Go expression src[i] is   *)
(* src[i+1] here and src[a:b] is SubSeq(src, a+1, b).                      *)
(* Strings that the code only compares (tag names, counter names) are TLA+ *)
(* strings, made from bytes by Str.                                        *)
(*                                                                         *)
(* Spec is a parser that reads one document with ParseMarkdown;            *)
(* GrammarSpec is a client that calls Grammar.addCustomTag on a new        *)
(* grammar; FrontSpec is a client that calls Parser.ParseFrontmatter on a  *)
(* new parser.                                                             *)
(***************************************************************************)
EXTENDS Integers, Sequences, FiniteSets, TLC

VARIABLES
    src,          \* Scanner.src: the markdown bytes
    scanner,      \* the remaining fields of Scanner
    token,        \* Parser.token
    tokenStr,     \* Parser.tokenStr (bytes)
    grammar,      \* Grammar: Tags, Entities, Styles, currentDefaultRoot
    tagStack,     \* parse(): tagStack, indices into grammar.Tags
    nodeStack,    \* parse(): nodeStack, indices into nodes
    styleStack,   \* parse(): styleStack, indices into leaves
    secmode,      \* parse(): secmode
    tableInbody,  \* parse(): tableInbody
    counters,     \* Parser.counters
    nodes,        \* every DocumentNode allocated so far; nodes[1] is Parser.rootNode
    leaves,       \* every TextNode, MathNode, CodeNode, StyleNode, EntityNode allocated so far
    pc,           \* position of the caller: "new", "parse", "done"; "grammar" for a
                  \* client of the grammar alone, "frontmatter" before ParseFrontmatter
    result,       \* what ParseMarkdown returned (err: what addCustomTag returned, for
                  \* a client of the grammar alone)
    frontmatter   \* what ParseFrontmatter returned

vars == <<src, scanner, token, tokenStr, grammar, tagStack, nodeStack, styleStack,
          secmode, tableInbody, counters, nodes, leaves, pc, result, frontmatter>>

-----------------------------------------------------------------------------
(* Bytes and runes *)

NUL == "NUL"                 \* the byte 0x00; also the zero value of Scanner.ch
EOF == "EOF"                 \* Scanner.ch = -1
RuneError == "RuneError"     \* utf8.RuneError
BT == "BT"                   \* the byte 0x60, the backtick
LeadBytes == {"xC3"}         \* first byte of a two-byte UTF-8 sequence
ContBytes == {"x80", "xA9"}  \* UTF-8 continuation bytes

\* r >= 0x80 for a byte r
NotASCII(b) == b \in LeadBytes \cup ContBytes

\* utf8.DecodeRune(src[off:]) for a first byte that is not ASCII
DecodeRune(off) ==
    IF src[off + 1] \in LeadBytes /\ off + 1 < Len(src) /\ src[off + 2] \in ContBytes
    THEN [r |-> src[off + 1] \o src[off + 2], w |-> 2]
    ELSE [r |-> RuneError, w |-> 1]

RECURSIVE Str(_)
\* string(bytes)
Str(q) == IF q = <<>> THEN "" ELSE Head(q) \o Str(Tail(q))

\* src[a:b]
Slice(a, b) == SubSeq(src, a + 1, b)

-----------------------------------------------------------------------------
(* Scanner *)

TokenKinds == {"TokenEOF", "TokenText", "TokenSection", "TokenValue", "TokenEnum",
               "TokenStyle", "TokenEntity", "TokenCodeText", "TokenMathText",
               "TokenConfigText", "TokenTableCell", "TokenTableRow"}

ScannerModes == {"modeNormal", "modeSection", "modeNewTag", "modeStyle", "modeEmbed",
                 "modeInjectSection", "modeConfig"}

TextModes == {"textNormal", "textTable", "textCode", "textMath", "textParagraph"}

\* ScannerError{ScannerRange{line, linepos, offset, offset}, text}
ScannerError(line, linepos, offset, text) ==
    [FromLine |-> line, FromLinePos |-> linepos, From |-> offset, To |-> offset, Text |-> text]

NewScanner ==
    [mode |-> "modeNewTag", nextMode |-> "modeNormal", textMode |-> "textNormal",
     ch |-> NUL, offset |-> 0, readOffset |-> 0, lineOffset |-> 0, lineCount |-> 0,
     indent |-> 0, Errors |-> <<>>]

\* v is passed to the step F that follows its computation
With(v, F(_)) == F(v)

\* Scanner.next
next(sc) ==
    IF sc.readOffset < Len(src)
    THEN With([off |-> sc.readOffset,
               lo |-> IF sc.ch = "\n" THEN sc.readOffset ELSE sc.lineOffset,
               lc |-> IF sc.ch = "\n" THEN sc.lineCount + 1 ELSE sc.lineCount,
               b |-> src[sc.readOffset + 1],
               dec |-> IF NotASCII(src[sc.readOffset + 1]) THEN DecodeRune(sc.readOffset)
                       ELSE [r |-> src[sc.readOffset + 1], w |-> 1]],
              LAMBDA n :
                  [sc EXCEPT !.offset = n.off, !.lineOffset = n.lo, !.lineCount = n.lc,
                             !.readOffset = n.off + n.dec.w, !.ch = n.dec.r,
                             !.Errors =
                                 IF n.b = NUL
                                 THEN Append(@, ScannerError(n.lc, n.off - n.lo, n.off,
                                                             "illegal character NUL"))
                                 ELSE IF NotASCII(n.b) /\ n.dec.r = RuneError /\ n.dec.w = 1
                                 THEN Append(@, ScannerError(n.lc, n.off - n.lo, n.off,
                                                             "illegal UTF-8 encoding"))
                                 ELSE @])
    ELSE [sc EXCEPT !.offset = Len(src),
                    !.lineOffset = IF sc.ch = "\n" THEN Len(src) ELSE @,
                    !.lineCount = IF sc.ch = "\n" THEN @ + 1 ELSE @,
                    !.ch = EOF]

RECURSIVE skipWhitespace(_, _)
skipWhitespace(sc, newline) ==
    IF sc.ch = " " \/ sc.ch = "\t" \/ (newline /\ sc.ch = "\n") \/ sc.ch = "\r"
    THEN skipWhitespace(next(sc), newline)
    ELSE sc

\* Scanner.isStartOfLine: the loop starts at lineCount, as in the code
isStartOfLine(sc) ==
    \/ sc.lineOffset = sc.offset
    \/ \A i \in sc.lineCount .. sc.offset - 1 : src[i + 1] \in {" ", "\t", "\r"}

RECURSIVE skipUntilNewline(_)
\* variant of skipUntilEmptyLine that stops after the first line
skipUntilNewline(sc) ==
    IF sc.ch = EOF THEN sc
    ELSE IF sc.ch = "\n" THEN next(sc)
    ELSE skipUntilNewline(next(sc))

RECURSIVE skipUntilEmptyLine(_)
skipUntilEmptyLine(sc) ==
    IF sc.ch = EOF THEN sc
    ELSE IF sc.ch = "\n"
    THEN With(skipWhitespace(next(sc), FALSE),
              LAMBDA s1 : IF s1.ch = "\n" THEN next(s1) ELSE skipUntilEmptyLine(next(s1)))
    ELSE skipUntilEmptyLine(next(sc))

RECURSIVE NextTimes(_, _)
NextTimes(sc, n) == IF n = 0 THEN sc ELSE NextTimes(next(sc), n - 1)

\* Scanner.skipString: [sc, ok]
skipString(sc, bstr) ==
    IF sc.offset + Len(bstr) > Len(src) THEN [sc |-> sc, ok |-> FALSE]
    ELSE IF \E i \in 1 .. Len(bstr) : bstr[i] # src[sc.offset + i] THEN [sc |-> sc, ok |-> FALSE]
    ELSE [sc |-> NextTimes(sc, Len(bstr)), ok |-> TRUE]

yamlSeparator == <<"-", "-", "-">>

Tok(sc, t, str) == [sc |-> sc, tok |-> t, str |-> str]

Blank(c) == c \in {" ", "\t", "\n", "\r"}

RECURSIVE skipIndented(_)
\* the loop "Scan until a line starts with the same or less indent as the previous tag"
skipIndented(sc) ==
    IF sc.ch # EOF /\ (sc.offset - sc.lineOffset > sc.indent \/ Blank(sc.ch))
    THEN skipIndented(next(sc))
    ELSE sc

\* scan(): code layout, math layout
scanBlock(sc, t) ==
    With(skipIndented(skipUntilEmptyLine(sc)),
         LAMBDA s1 : Tok([s1 EXCEPT !.textMode = "textNormal", !.mode = "modeNewTag"], t,
                         Slice(sc.offset, s1.offset)))

\* scan(): config mode
scanConfig(sc) ==
    With(skipUntilEmptyLine(sc),
         LAMBDA s1 : Tok([s1 EXCEPT !.mode = sc.nextMode], "TokenConfigText",
                         Slice(sc.offset, s1.offset)))

RECURSIVE skipLine(_)
\* case '%': the rest of the line
skipLine(sc) == IF sc.ch # EOF /\ sc.ch # "\n" THEN skipLine(next(sc)) ELSE sc

RECURSIVE skipName(_)
\* case '>', '#': up to a whitespace or ';'
skipName(sc) ==
    IF sc.ch # EOF /\ ~Blank(sc.ch) /\ sc.ch # ";" THEN skipName(next(sc)) ELSE sc

RECURSIVE skipBars(_)
skipBars(sc) == IF sc.ch = "|" THEN skipBars(next(sc)) ELSE sc

RECURSIVE skipEntityName(_)
skipEntityName(sc) ==
    IF sc.ch # EOF /\ sc.ch # "~" /\ sc.ch # "\r" /\ sc.ch # "\n" /\ sc.ch # ";"
    THEN skipEntityName(next(sc)) ELSE sc

RECURSIVE codeLoop(_, _, _)
\* case backtick: the loop over the code text: [sc, start, str]
codeLoop(sc, start, str) ==
    IF sc.ch # BT /\ sc.ch # EOF /\ sc.ch # "\r" /\ sc.ch # "\n"
    THEN With(next(sc),
              LAMBDA s1 :
                  IF sc.ch = "\\" /\ s1.ch = BT
                  THEN codeLoop(next(next(s1)), s1.offset, str \o Slice(start, s1.offset - 1))
                  ELSE codeLoop(IF sc.ch = "\\" THEN next(s1) ELSE s1, start, str))
    ELSE [sc |-> sc, start |-> start, str |-> str]

RECURSIVE mathLoop(_, _, _)
\* case '$': the loop over the math text
mathLoop(sc, start, str) ==
    IF sc.ch # "$" /\ sc.ch # EOF
    THEN With(next(sc),
              LAMBDA s1 :
                  IF sc.ch = "\\" /\ s1.ch = "$"
                  THEN mathLoop(next(next(s1)), s1.offset, str \o Slice(start, s1.offset - 1))
                  ELSE mathLoop(IF sc.ch = "\\" THEN next(s1) ELSE s1, start, str))
    ELSE [sc |-> sc, start |-> start, str |-> str]

\* case backtick, case '$': the token after the loop c
quoted(c, quote, t) ==
    Tok(IF c.sc.ch = quote THEN next(c.sc) ELSE c.sc, t, c.str \o Slice(c.start, c.sc.offset))

RECURSIVE valueLoop(_, _, _)
\* case modeStyle, modeEmbed, modeSection: the loop over a value
valueLoop(sc, start, res) ==
    IF sc.ch # EOF /\ ~Blank(sc.ch)
       /\ (sc.mode # "modeEmbed" \/ sc.ch # "~") /\ (sc.mode # "modeStyle" \/ sc.ch # "}")
       /\ sc.ch # ";"
    THEN With(next(sc),
              LAMBDA s1 : IF sc.ch = "\\"
                          THEN valueLoop(next(s1), s1.offset, res \o Slice(start, sc.offset))
                          ELSE valueLoop(s1, start, res))
    ELSE [sc |-> sc, start |-> start, str |-> res]

TagStart(c) == c \in {"#", "+", "-", "%", ">"}

RECURSIVE textLoop(_)
\* default: "Scan text until the next markup"; st = [sc, start, res, newline, colon]
textLoop(st) ==
    IF st.sc.ch # EOF /\ st.sc.ch \notin {"{", "}", "~", BT, "$", "_", "*"}
       /\ (~st.newline \/ ~TagStart(st.sc.ch))
       /\ (st.sc.textMode # "textTable" \/ st.sc.ch # "|")
       /\ (st.sc.textMode # "textParagraph" \/ st.sc.ch # "\n" \/ ~st.colon)
    THEN With(next(st.sc),
              LAMBDA s1 :
                  \* st.sc.ch is the rune before next()
                  IF st.newline /\ st.sc.ch = "\n"
                  THEN [st EXCEPT !.sc = [s1 EXCEPT !.mode = "modeNewTag"]]
                  ELSE textLoop(
                      IF st.sc.ch = "\r" \/ st.sc.ch = "\n"
                         \/ (st.newline /\ (st.sc.ch = " " \/ st.sc.ch = "\t"))
                      THEN [st EXCEPT !.sc = s1, !.newline = TRUE]
                      ELSE IF st.sc.ch = ":"
                      THEN [st EXCEPT !.sc = s1, !.newline = FALSE, !.colon = TRUE]
                      ELSE IF st.sc.ch = "\\"
                      THEN [sc |-> next(s1), start |-> s1.offset,
                            res |-> st.res \o Slice(st.start, st.sc.offset),
                            newline |-> FALSE, colon |-> FALSE]
                      ELSE IF st.sc.ch # " " /\ st.sc.ch # "\t" /\ st.sc.ch # "\r"
                      THEN [st EXCEPT !.sc = s1, !.newline = FALSE, !.colon = FALSE]
                      ELSE [st EXCEPT !.sc = s1, !.newline = FALSE]))
    ELSE st

RECURSIVE TrimRight(_)
\* strings.TrimRight(result, " \r\t\n")
TrimRight(q) == IF q # <<>> /\ Blank(q[Len(q)]) THEN TrimRight(SubSeq(q, 1, Len(q) - 1)) ELSE q

\* default: the text after the check for an empty line
scanText(sc, start, newline) ==
    With(textLoop([sc |-> sc, start |-> start, res |-> <<>>, newline |-> newline,
                   colon |-> FALSE]),
         LAMBDA st :
             IF st.newline /\ TagStart(st.sc.ch)
             THEN Tok([st.sc EXCEPT !.mode = "modeNewTag"], "TokenText",
                      st.res \o Slice(st.start, st.sc.offset))
             ELSE IF st.colon /\ st.sc.textMode = "textParagraph" /\ st.sc.ch = "\n"
             THEN Tok([skipWhitespace(st.sc, TRUE) EXCEPT !.mode = "modeNewTag",
                                                         !.textMode = "textNormal"],
                      "TokenText", TrimRight(st.res \o Slice(st.start, st.sc.offset)))
             ELSE Tok(st.sc, "TokenText", st.res \o Slice(st.start, st.sc.offset)))

Again(sc) == [sc |-> sc, tok |-> "scanAgain", str |-> <<>>]

\* one pass of scan() from the label scanAgain: the token, or Again for "goto scanAgain"
scanOnce(sc) ==
    CASE sc.ch = EOF -> Tok(sc, "TokenEOF", <<>>)
      [] sc.ch = NUL -> Again(next(sc))
      [] sc.ch = "%" /\ (sc.lineOffset = sc.offset \/ sc.mode = "modeNewTag") ->
             With(skipLine(next(sc)),
                  LAMBDA s1 : Again(IF s1.ch = "\n" THEN next(s1) ELSE s1))
      [] sc.ch \in {">", "#"} /\ (sc.lineOffset = sc.offset \/ sc.mode = "modeNewTag") ->
             With(skipName(next([sc EXCEPT !.indent = sc.offset - sc.lineOffset,
                                           !.mode = "modeSection", !.nextMode = "modeNormal",
                                           !.textMode = "textNormal"])),
                  LAMBDA s1 :
                      Tok(IF Blank(s1.ch)
                          THEN skipWhitespace([s1 EXCEPT !.mode = "modeNormal"], FALSE)
                          ELSE next(s1),
                          "TokenSection", Slice(sc.offset, s1.offset)))
      [] sc.ch \in {"-", "+"} /\ (sc.lineOffset = sc.offset \/ sc.mode = "modeNewTag") ->
             With(next(sc),
                  LAMBDA s1 :
                      Tok([s1 EXCEPT !.mode = IF Blank(s1.ch) THEN "modeNormal" ELSE "modeSection",
                                     !.nextMode = IF Blank(s1.ch) THEN @ ELSE "modeNormal",
                                     !.textMode = "textNormal",
                                     !.indent = sc.offset - sc.lineOffset],
                          "TokenEnum", Slice(sc.offset, s1.offset)))
      [] sc.ch \in {"_", "*"} /\ sc.mode = "modeNormal" -> Tok(next(sc), "TokenStyle", <<sc.ch>>)
      [] sc.ch = "|" /\ sc.mode = "modeNormal"
         /\ (sc.textMode = "textTable" \/ isStartOfLine(sc)) ->
             With(skipBars(next([sc EXCEPT !.textMode = "textTable"])),
                  LAMBDA s1 :
                      With(skipWhitespace(s1, FALSE),
                           LAMBDA s2 :
                               IF s2.ch # "\n"
                               THEN Tok(s2, "TokenTableCell", Slice(sc.offset, s1.offset))
                               ELSE With(skipWhitespace(next(s2), FALSE),
                                         LAMBDA s3 :
                                             Tok(IF s3.ch = "\n"
                                                 THEN [skipWhitespace([s3 EXCEPT !.textMode =
                                                                           "textNormal"], TRUE)
                                                          EXCEPT !.mode = "modeNewTag"]
                                                 ELSE s3,
                                                 "TokenTableRow", Slice(sc.offset, s1.offset)))))
      [] sc.ch = "\r" -> Again(next(sc))
      [] sc.ch \in {" ", "\t"} /\ sc.mode = "modeSection" ->
             Again(skipWhitespace([next(sc) EXCEPT !.mode = sc.nextMode], TRUE))
      [] sc.ch \in {" ", "\t"} /\ sc.mode \in {"modeEmbed", "modeStyle"} ->
             Again([next(sc) EXCEPT !.mode = "modeNormal"])
      [] sc.ch \in {" ", "\t"} /\ sc.mode = "modeNewTag" -> Again(next(sc))
      [] sc.ch = "{" /\ sc.mode = "modeNormal" ->
             Tok(next([sc EXCEPT !.mode = "modeStyle", !.nextMode = "modeNormal"]),
                 "TokenStyle", <<"{">>)
      [] sc.ch = "}" /\ sc.mode \in {"modeStyle", "modeNormal"} ->
             Tok(next([sc EXCEPT !.mode = "modeNormal"]), "TokenStyle", <<"}">>)
      [] sc.ch = "~" /\ sc.mode = "modeEmbed" ->
             Again(next([sc EXCEPT !.mode = "modeNormal"]))
      [] sc.ch = "~" /\ sc.mode = "modeNormal" ->
             With(next(sc),
                  LAMBDA s0 :
                      With(skipEntityName(s0),
                           LAMBDA s1 :
                               Tok(IF s1.ch = "~" THEN next(s1)
                                   ELSE IF s1.ch = ";"
                                   THEN [next(s1) EXCEPT !.mode = "modeEmbed",
                                                         !.nextMode = "modeNormal"]
                                   ELSE s1,
                                   "TokenEntity", Slice(s0.offset, s1.offset))))
      [] sc.ch = BT /\ sc.mode = "modeNormal" ->
             With(next(sc),
                  LAMBDA s0 : quoted(codeLoop(s0, s0.offset, <<>>), BT, "TokenCodeText"))
      [] sc.ch = "$" /\ sc.mode = "modeNormal" ->
             With(next(sc),
                  LAMBDA s0 : quoted(mathLoop(s0, s0.offset, <<>>), "$", "TokenMathText"))
      \* the second switch, on scanner.mode
      [] OTHER ->
             IF sc.mode \in {"modeStyle", "modeEmbed", "modeSection"}
             THEN With(valueLoop(sc, sc.offset, <<>>),
                       LAMBDA v :
                           With(next(IF v.sc.ch # ";" THEN [v.sc EXCEPT !.mode = sc.nextMode]
                                     ELSE v.sc),
                                LAMBDA s1 :
                                    IF Len(v.str \o Slice(v.start, v.sc.offset)) = 0
                                    THEN Again(s1)
                                    ELSE Tok(s1, "TokenValue",
                                             v.str \o Slice(v.start, v.sc.offset))))
             ELSE IF sc.mode = "modeNewTag"
             THEN Tok([sc EXCEPT !.mode = "modeNormal", !.indent = sc.offset - sc.lineOffset],
                      "TokenSection", <<"#", "p">>)
             ELSE IF sc.ch # "\n"
             THEN scanText(sc, sc.offset, sc.lineOffset = sc.offset)
             ELSE With(skipWhitespace(next(sc), FALSE),
                       LAMBDA s1 :
                           IF s1.ch # "\n"
                           THEN scanText(s1, sc.offset, TRUE)
                           ELSE With(skipWhitespace(s1, TRUE),
                                     LAMBDA s2 :
                                         IF TagStart(s2.ch)
                                         THEN Again([s2 EXCEPT !.mode = "modeNewTag"])
                                         ELSE Tok([s2 EXCEPT !.indent = s2.offset - s2.lineOffset],
                                                  "TokenSection", <<"#", "p">>)))

RECURSIVE scanAgain(_)
\* scan() from the label scanAgain
scanAgain(sc) ==
    With(scanOnce(sc), LAMBDA t : IF t.tok = "scanAgain" THEN scanAgain(t.sc) ELSE t)

\* Scanner.scan: [sc, tok, str]
scan(sc) ==
    IF sc.textMode = "textCode" /\ sc.mode \in {"modeNormal", "modeNewTag"}
    THEN scanBlock(sc, "TokenCodeText")
    ELSE IF sc.textMode = "textMath" /\ sc.mode = "modeNormal"
    THEN scanBlock(sc, "TokenMathText")
    ELSE IF sc.mode = "modeConfig"
    THEN scanConfig(sc)
    ELSE IF sc.mode = "modeInjectSection"
    THEN Tok([sc EXCEPT !.mode = "modeNormal"], "TokenSection", <<>>)
    ELSE scanAgain(IF sc.offset = 0 THEN skipWhitespace(next(sc), TRUE) ELSE sc)

-----------------------------------------------------------------------------
(* Maps (Go map[string]...) as sets of <<key, value>> pairs with unique keys *)

MapHas(m, k) == \E e \in m : e[1] = k
MapGet(m, k) == (CHOOSE e \in m : e[1] = k)[2]
MapSet(m, k, v) == {e \in m : e[1] # k} \cup {<<k, v>>}
MapDel(m, k) == {e \in m : e[1] # k}

-----------------------------------------------------------------------------
(* Grammar *)

Nil == "<nil>"    \* a nil *string

NoParentHood == "NoParentHood"
RootParentHood == "RootParentHood"
DefaultRootParentHood == "DefaultRootParentHood"
IndentParentHood == "IndentParentHood"
TextParentHood == "TextParentHood"

sectionNormal == "sectionNormal"
sectionMedia == "sectionMedia"
sectionTable == "sectionTable"
sectionCode == "sectionCode"
sectionMath == "sectionMath"
sectionParagraph == "sectionParagraph"

\* a TagDefinition literal of loadBuiltinTags; the template text is abbreviated
TagDefinition(name, defaultParent, mode, possibleParents, counter, defattr, parentHood, allowed) ==
    [Name |-> name, HTMLTemplate |-> "builtin " \o name, DefaultParent |-> defaultParent,
     SectionMode |-> mode, PossibleParents |-> possibleParents, Counter |-> counter,
     ResetCounter |-> <<>>, DefaultAttribute |-> defattr, ClassShortcuts |-> {},
     ParentHood |-> parentHood, FirstChild |-> FALSE, allowedInParentHood |-> allowed]

\* variant of GetTag that scans from the front, as GetEntity and GetStyle do
GetTagFirst(g, tagname) ==
    LET hits == {i \in 1 .. Len(g.Tags) : g.Tags[i].Name = tagname}
    IN IF hits = {} THEN 0 ELSE CHOOSE i \in hits : \A j \in hits : i <= j

\* Grammar.GetTag: the index in g.Tags of the last definition of that name, 0 for nil
GetTag(g, tagname) ==
    LET hits == {i \in 1 .. Len(g.Tags) : g.Tags[i].Name = tagname}
    IN IF hits = {} THEN 0 ELSE CHOOSE i \in hits : \A j \in hits : j <= i

\* Grammar.addBuiltinTag
addBuiltinTag(g, tag) ==
    IF GetTag(g, tag.Name) # 0 THEN g ELSE [g EXCEPT !.Tags = Append(@, tag)]

BuiltinTagList ==
    << TagDefinition("#root", Nil, sectionNormal, <<>>, "", "", RootParentHood, FALSE),
       TagDefinition("#p", Nil, sectionParagraph, <<>>, "", "", TextParentHood, TRUE),
       TagDefinition("#ul", Nil, sectionNormal, <<>>, "", "", IndentParentHood, TRUE),
       TagDefinition("#li", "#ul", sectionNormal, <<"#ul", "#ol">>, "", "", TextParentHood, FALSE),
       TagDefinition("#ol", Nil, sectionNormal, <<>>, "", "", IndentParentHood, TRUE),
       TagDefinition("#", Nil, sectionNormal, <<>>, "", "", TextParentHood, TRUE),
       TagDefinition("##", Nil, sectionNormal, <<>>, "", "", TextParentHood, TRUE),
       TagDefinition("###", Nil, sectionNormal, <<>>, "", "", TextParentHood, TRUE),
       TagDefinition("####", Nil, sectionNormal, <<>>, "", "", TextParentHood, TRUE),
       TagDefinition("#table", Nil, sectionTable, <<>>, "Table", "", NoParentHood, TRUE),
       TagDefinition("#tbody", "#table", sectionTable, <<"#table", "#pie", "#chart">>, "", "",
                     NoParentHood, FALSE),
       TagDefinition("#thead", "#table", sectionTable, <<"#table", "#pie", "#chart">>, "", "",
                     NoParentHood, FALSE),
       TagDefinition("#tbody-row", "#tbody", sectionTable, <<"#tbody">>, "", "", NoParentHood, FALSE),
       TagDefinition("#thead-row", "#thead", sectionTable, <<"#thead">>, "", "", NoParentHood, FALSE),
       TagDefinition("#tbody-cell", "#tbody-row", sectionTable, <<"#tbody-row">>, "", "",
                     TextParentHood, FALSE),
       TagDefinition("#thead-cell", "#thead-row", sectionTable, <<"#thead-row">>, "", "",
                     TextParentHood, FALSE),
       TagDefinition("#code", Nil, sectionCode, <<>>, "Sample", "class", TextParentHood, TRUE),
       TagDefinition("#math", Nil, sectionMath, <<>>, "Equation", "", TextParentHood, TRUE),
       TagDefinition("#bib", Nil, sectionNormal, <<>>, "bib", "label", TextParentHood, TRUE),
       TagDefinition("#pie", Nil, sectionTable, <<>>, "Chart", "", NoParentHood, TRUE),
       TagDefinition("#chart", Nil, sectionTable, <<>>, "Chart", "", NoParentHood, TRUE),
       TagDefinition("#caption", Nil, sectionNormal, <<>>, "", "", TextParentHood, TRUE),
       TagDefinition(">", Nil, sectionNormal, <<>>, "", "", IndentParentHood, TRUE),
       TagDefinition("#dl", Nil, sectionNormal, <<>>, "", "", IndentParentHood, TRUE),
       TagDefinition("#dt", "#dl", sectionNormal, <<"#dl">>, "", "", TextParentHood, FALSE),
       TagDefinition("#dd", "#dl", sectionNormal, <<"#dl">>, "", "", IndentParentHood, FALSE) >>

RECURSIVE addBuiltinTags(_, _)
addBuiltinTags(g, list) ==
    IF list = <<>> THEN g ELSE addBuiltinTags(addBuiltinTag(g, Head(list)), Tail(list))

\* Grammar.loadBuiltinTags
loadBuiltinTags(g) == addBuiltinTags(g, BuiltinTagList)

\* NewGrammar
NewGrammar ==
    loadBuiltinTags([Tags |-> <<>>, Entities |-> <<>>, Styles |-> <<>>, currentDefaultRoot |-> 0])

\* variant of rebaseChild that also rewrites the tags that have a default parent of their own
rebaseChildAlways(g, child, i, new) ==
    IF \/ child.ParentHood = DefaultRootParentHood
       \/ i = new
       \/ child.Name = "#root"
    THEN child
    ELSE [child EXCEPT !.DefaultParent = g.Tags[new].Name,
                       !.PossibleParents = <<g.Tags[new].Name>> \o @]

\* variant of rebaseChild that takes the flag from the tags it gives a default parent
rebaseChildClearing(g, child, i, new) ==
    IF \/ (child.DefaultParent # Nil
           /\ (g.currentDefaultRoot = 0
               \/ child.DefaultParent # g.Tags[g.currentDefaultRoot].Name))
       \/ child.ParentHood = DefaultRootParentHood
       \/ i = new
       \/ child.Name = "#root"
    THEN child
    ELSE [child EXCEPT !.DefaultParent = g.Tags[new].Name,
                       !.PossibleParents = <<g.Tags[new].Name>> \o @,
                       !.allowedInParentHood = FALSE]

\* the loop of addCustomTag over grammar.Tags for a tag with DefaultRootParentHood;
\* new is the index of the tag being added
rebaseChild(g, child, i, new) ==
    IF \/ (child.DefaultParent # Nil
           /\ (g.currentDefaultRoot = 0
               \/ child.DefaultParent # g.Tags[g.currentDefaultRoot].Name))
       \/ child.ParentHood = DefaultRootParentHood
       \/ i = new
       \/ child.Name = "#root"
    THEN child
    ELSE [child EXCEPT !.DefaultParent = g.Tags[new].Name,
                       !.PossibleParents = <<g.Tags[new].Name>> \o @]

\* Grammar.addCustomTag: [g, err]; err is "" for nil
addCustomTag(g, tag) ==
    LET g1 == [g EXCEPT !.Tags = Append(@, tag)]
        new == Len(g1.Tags)
        badParents == {i \in 1 .. Len(tag.PossibleParents) : GetTag(g1, tag.PossibleParents[i]) = 0}
    IN IF tag.DefaultParent # Nil /\ GetTag(g1, tag.DefaultParent) = 0
       THEN [g |-> g1, err |-> "Unknown tag named " \o tag.DefaultParent
                               \o " is used as default parent for tag " \o tag.Name]
       ELSE IF badParents # {}
       THEN [g |-> g1,
             err |-> "Unknown tag named "
                     \o tag.PossibleParents[CHOOSE i \in badParents : \A j \in badParents : i <= j]
                     \o " is used as possible parent for tag " \o tag.Name]
       ELSE LET allowed == IF tag.DefaultParent = Nil /\ tag.Name # "#root"
                           THEN TRUE ELSE tag.allowedInParentHood
                g2 == [g1 EXCEPT !.Tags[new].allowedInParentHood = allowed]
                g3 == IF tag.ParentHood = DefaultRootParentHood
                      THEN [g2 EXCEPT !.Tags = [i \in 1 .. new |-> rebaseChild(g2, g2.Tags[i], i, new)],
                                      !.currentDefaultRoot = new]
                      ELSE g2
                g4 == IF g3.currentDefaultRoot # 0 /\ tag.DefaultParent = Nil /\ tag.Name # "#root"
                      THEN [g3 EXCEPT !.Tags[new].DefaultParent = g3.Tags[g3.currentDefaultRoot].Name]
                      ELSE g3
            IN [g |-> g4, err |-> ""]

-----------------------------------------------------------------------------
(* Document tree *)

\* &DocumentNode{Tag: tag, TagDefinition: tagdef, Indent: indent}
DocumentNode(tag, tagdef, indent) ==
    [Tag |-> tag, TagDefinition |-> tagdef, Counters |-> {}, Parent |-> 0, NextSibling |-> 0,
     PrevSibling |-> 0, Children |-> <<>>, Text |-> <<>>, Attributes |-> {}, Colspan |-> 0,
     Indent |-> indent]

\* NewDocument
NewDocument(g) == DocumentNode("Root", GetTag(g, "#root"), 0)

\* a NodeWithText: a DocumentNode (index into nodes) or a StyleNode (index into leaves)
NodeRef(i) == <<"node", i>>
StyleRef(i) == <<"style", i>>

\* &TextNode{...}, &MathNode{...}, &CodeNode{...}
TextLeaf(kind, text, parent) ==
    [kind |-> kind, Text |-> text, Parent |-> parent, Name |-> "", Value |-> "",
     Attributes |-> {}, Children |-> <<>>, Definition |-> 0, Counters |-> {}]

\* &StyleNode{...}
StyleNode(name, value, parent, attributes, styledef) ==
    [kind |-> "Style", Text |-> "", Parent |-> parent, Name |-> name, Value |-> value,
     Attributes |-> attributes, Children |-> <<>>, Definition |-> styledef, Counters |-> {}]

\* DocumentNode.RemoveChild; the sibling links are left as they are
RemoveChild(ns, node, child) ==
    LET ch == ns[node].Children
        hits == {i \in 1 .. Len(ch) : ch[i] = child}
    IN IF hits = {} THEN ns
       ELSE LET i == CHOOSE k \in hits : \A j \in hits : k <= j
            IN [ns EXCEPT ![node].Children = SubSeq(ch, 1, i - 1) \o SubSeq(ch, i + 1, Len(ch)),
                          ![child].Parent = 0]

-----------------------------------------------------------------------------
(* Parser: the closures of Parser.parse over a record P of the parser's state *)
(* P = [sc, token, tokenStr, g, tagStack, nodeStack, styleStack, secmode,     *)
(*      tableInbody, counters, nodes, leaves, fatal]                          *)
(* fatal is "" while parse() runs, else the error it returns ("panic" for a   *)
(* run-time panic, "hang" for a loop that does not end).                      *)

\* Parser.next
pnext(P) ==
    With(scan(P.sc), LAMBDA t : [P EXCEPT !.sc = t.sc, !.token = t.tok, !.tokenStr = t.str])

\* strings.Index(s, c) for a one-byte c: zero-based, -1 when absent
Index(s, c) ==
    LET hits == {i \in 1 .. Len(s) : s[i] = c}
    IN IF hits = {} THEN -1 ELSE (CHOOSE i \in hits : \A j \in hits : i <= j) - 1

\* Parser.newDocumentNode: the node is appended to P.nodes, its index is Len(nodes)
newDocumentNode(P, tag, indent) ==
    With(GetTag(P.g, tag),
         LAMBDA found :
             [P EXCEPT !.nodes = Append(@, DocumentNode(tag, IF found = 0 THEN GetTag(P.g, "#p")
                                                             ELSE found, indent))])

Last(P) == Len(P.nodes)

\* the body of the loop of parseAttributes: the attributes with the token str, whose
\* first ":" is at pos; a class name is replaced by what the tag defines as its long form
attribute(P, tag, attributes, str, pos) ==
    IF pos = 0 \/ Len(str) = 0 \/ pos = Len(str) - 1
    THEN attributes
    ELSE IF pos # -1
    THEN MapSet(attributes, Str(SubSeq(str, 1, pos)), Str(SubSeq(str, pos + 2, Len(str))))
    ELSE IF tag # 0 /\ MapHas(P.g.Tags[tag].ClassShortcuts, Str(str))
    THEN MapSet(attributes, MapGet(P.g.Tags[tag].ClassShortcuts, Str(str)), "")
    ELSE MapSet(attributes, Str(str), "")

RECURSIVE attributesLoop(_, _, _)
\* for parser.next(); parser.token == TokenValue; parser.next(): [P, attributes]
attributesLoop(P, tag, attributes) ==
    With(pnext(P),
         LAMBDA Q :
             IF Q.token # "TokenValue" THEN [P |-> Q, attributes |-> attributes]
             ELSE attributesLoop(Q, tag, attribute(Q, tag, attributes, Q.tokenStr,
                                                   Index(Q.tokenStr, ":"))))

\* parseAttributes
parseAttributes(P, tag) == attributesLoop(P, tag, {})

\* copyCounter
copyCounter(P, c) == [P EXCEPT !.nodes[c].Counters = P.counters]

\* incCounter
incCounter(P, counter) ==
    IF counter = "" THEN P
    ELSE IF ~MapHas(P.counters, counter)
    THEN [P EXCEPT !.counters = MapSet(@, counter, 1)]
    ELSE [P EXCEPT !.counters = MapSet(@, counter, MapGet(P.counters, counter) + 1)]

\* resetCounter
resetCounter(P, names) ==
    [P EXCEPT !.counters = {e \in @ : \A i \in 1 .. Len(names) : names[i] # e[1]}]

\* appendChild
appendChild(P, parent, child) ==
    LET ch == P.nodes[parent].Children
        P1 == [P EXCEPT !.nodes[child].Parent = parent]
        P2 == IF Len(ch) > 0
              THEN [P1 EXCEPT !.nodes[ch[Len(ch)]].NextSibling = child,
                              !.nodes[child].PrevSibling = ch[Len(ch)]]
              ELSE P1
    IN [P2 EXCEPT !.nodes[parent].Children = Append(@, child)]

\* closeStyles without its effect: the open styles stay on the stack
closeStylesKeeping(P) == P

\* closeStyles
closeStyles(P) == [P EXCEPT !.styleStack = <<>>]

\* tagLevel: zero-based, -1 when neither tag is open
tagLevel(P, tag, tag2) ==
    LET hits == {i \in 1 .. Len(P.tagStack) : P.tagStack[i] = tag \/ P.tagStack[i] = tag2}
    IN IF hits = {} THEN -1 ELSE (CHOOSE i \in hits : \A j \in hits : j <= i) - 1

\* closeTags
closeTags(P, level) ==
    With(closeStyles(P),
         LAMBDA P0 :
             IF Len(P.tagStack) <= level THEN
                 [P0 EXCEPT !.secmode = IF Len(P.tagStack) = 0 THEN sectionNormal
                                        ELSE P0.g.Tags[P0.tagStack[Len(P.tagStack)]].SectionMode]
             ELSE IF level < 0 THEN [P0 EXCEPT !.fatal = "panic"]
             ELSE [P0 EXCEPT !.tagStack = SubSeq(@, 1, level),
                             !.nodeStack = SubSeq(@, 1, Len(@) - (Len(P.tagStack) - level)),
                             !.secmode = IF level = 0 THEN sectionNormal
                                         ELSE P0.g.Tags[P0.tagStack[level]].SectionMode])

\* variant of closeTableCell that leaves the column span of the cell as it is
closeTableCellUnset(P, colspan) ==
    With(tagLevel(P, GetTag(P.g, "#tbody-cell"), GetTag(P.g, "#thead-cell")),
         LAMBDA level : IF level # -1 THEN closeTags(P, level) ELSE P)

\* closeTableCell
closeTableCell(P, colspan) ==
    With(tagLevel(P, GetTag(P.g, "#tbody-cell"), GetTag(P.g, "#thead-cell")),
         LAMBDA level :
             IF level # -1
             THEN closeTags([P EXCEPT !.nodes[P.nodeStack[level + 2]].Colspan = colspan], level)
             ELSE P)

\* closeTableRow
closeTableRow(P, colspan) ==
    With(closeTableCell(P, colspan),
         LAMBDA P1 :
             With(tagLevel(P1, GetTag(P1.g, "#tbody-row"), GetTag(P1.g, "#thead-row")),
                  LAMBDA level :
                      [(IF level # -1 THEN closeTags(P1, level) ELSE P1)
                          EXCEPT !.tableInbody = TRUE]))

\* variant of pushNode that copies the counters before it counts
pushNodeCopyFirst(P, parent, node) ==
    With(P.g.Tags[P.nodes[node].TagDefinition],
         LAMBDA def :
             [incCounter(resetCounter(copyCounter(appendChild(P, parent, node), node),
                                      def.ResetCounter),
                         def.Counter)
                 EXCEPT !.tagStack = Append(@, P.nodes[node].TagDefinition),
                        !.nodeStack = Append(@, node)])

\* pushNodeOnStack after the split: append, count, push
pushNode(P, parent, node) ==
    With(P.g.Tags[P.nodes[node].TagDefinition],
         LAMBDA def :
             [copyCounter(incCounter(resetCounter(appendChild(P, parent, node),
                                                  def.ResetCounter),
                                     def.Counter), node)
                 EXCEPT !.tagStack = Append(@, P.nodes[node].TagDefinition),
                        !.nodeStack = Append(@, node)])

\* pushNodeOnStack: parent is the innermost open node, which has text or children
splitsParent(P, parent, node) ==
    /\ P.g.Tags[P.nodes[node].TagDefinition].FirstChild
    /\ Len(P.nodes[parent].Text) + Len(P.nodes[parent].Children) > 0
    /\ P.g.Tags[P.nodes[parent].TagDefinition].Name # "#root"

RECURSIVE pushNodeOnStack(_, _)
\* pushNodeOnStack: for a FirstChild tag the parent is closed (P1) and a twin of it
\* created (P2) and opened
pushNodeOnStack(P, node) ==
    With(P.nodeStack[Len(P.nodeStack)],
         LAMBDA parent :
             IF ~splitsParent(P, parent, node) THEN pushNode(P, parent, node)
             ELSE With(closeTags(P, Len(P.tagStack) - 1),
                       LAMBDA P1 :
                           IF P1.fatal # "" THEN P1
                           ELSE With(newDocumentNode(
                                         P1, P.g.Tags[P.nodes[parent].TagDefinition].Name,
                                         P.nodes[parent].Indent),
                                     LAMBDA P2 : pushNode(pushNodeOnStack(P2, Last(P2)),
                                                          Last(P2), node))))

\* DocumentNode.AppendText, StyleNode.AppendText: the leaf is appended to P.leaves
AppendText(P, p, leaf) ==
    LET P1 == [P EXCEPT !.leaves = Append(@, leaf)]
        id == Len(P1.leaves)
    IN IF p[1] = "node" THEN [P1 EXCEPT !.nodes[p[2]].Text = Append(@, id)]
       ELSE [P1 EXCEPT !.leaves[p[2]].Children = Append(@, id)]

\* parent
parent(P) ==
    IF Len(P.styleStack) > 0 THEN StyleRef(P.styleStack[Len(P.styleStack)])
    ELSE NodeRef(P.nodeStack[Len(P.nodeStack)])

\* closeStyle: each case compares styleName with itself
closeStyle(P, styleName) ==
    IF Len(P.styleStack) = 0 THEN P
    ELSE LET mismatch == CASE styleName = "*" -> styleName # "*"
                           [] styleName = "_" -> styleName # "_"
                           [] OTHER -> styleName # "}"
         IN IF mismatch THEN P
            ELSE [P EXCEPT !.styleStack = SubSeq(@, 1, Len(@) - 1)]

RECURSIVE defaultParents(_, _, _)
\* the first loop of openTag2: the default parents above p, each found by GetTag;
\* a 0 at the end marks a chain that never ends (fuel counts the tags not yet seen)
defaultParents(g, p, fuel) ==
    LET dp == g.Tags[p].DefaultParent
        q == IF GetTag(g, dp) = 0 THEN GetTag(g, "#p") ELSE GetTag(g, dp)
    IN IF dp = Nil \/ dp = "#root" THEN <<>>
       ELSE IF fuel = 0 THEN <<0>>
       ELSE <<q>> \o defaultParents(g, q, fuel - 1)

\* variant of matchDefaults that takes n.Indent <= node.Indent for block scope
matchDefaultsLax(g, defaults, t, n, indent) ==
    LET ok(j) == LET def == g.Tags[defaults[j + 1]]
                 IN \/ /\ def.allowedInParentHood
                       /\ \/ t.ParentHood = DefaultRootParentHood
                          \/ t.ParentHood = RootParentHood
                          \/ (t.ParentHood = IndentParentHood /\ n.Indent <= indent)
                    \/ \E k \in 1 .. Len(def.PossibleParents) : def.PossibleParents[k] = t.Name
        hits == {j \in 0 .. Len(defaults) - 1 : ok(j)}
    IN IF hits = {} THEN -1 ELSE CHOOSE j \in hits : \A k \in hits : j <= k

\* variant of matchDefaults that takes the last member of the chain that the open tag
\* may host
matchDefaultsLast(g, defaults, t, n, indent) ==
    LET ok(j) == LET def == g.Tags[defaults[j + 1]]
                 IN \/ /\ def.allowedInParentHood
                       /\ \/ t.ParentHood = DefaultRootParentHood
                          \/ t.ParentHood = RootParentHood
                          \/ (t.ParentHood = IndentParentHood /\ n.Indent < indent)
                    \/ \E k \in 1 .. Len(def.PossibleParents) : def.PossibleParents[k] = t.Name
        hits == {j \in 0 .. Len(defaults) - 1 : ok(j)}
    IN IF hits = {} THEN -1 ELSE CHOOSE j \in hits : \A k \in hits : k <= j

\* the body of the loop labelled done in openTag2: the first j whose definition may be
\* a child of the open tag t with node n, -1 when there is none
matchDefaults(g, defaults, t, n, indent) ==
    LET ok(j) == LET def == g.Tags[defaults[j + 1]]
                 IN \/ /\ def.allowedInParentHood
                       /\ \/ t.ParentHood = DefaultRootParentHood
                          \/ t.ParentHood = RootParentHood
                          \/ (t.ParentHood = IndentParentHood /\ n.Indent < indent)
                    \/ \E k \in 1 .. Len(def.PossibleParents) : def.PossibleParents[k] = t.Name
        hits == {j \in 0 .. Len(defaults) - 1 : ok(j)}
    IN IF hits = {} THEN -1 ELSE CHOOSE j \in hits : \A k \in hits : j <= k

RECURSIVE fixParentsLoop(_, _, _, _)
\* the loop of openTag2 over tagStack: [P, depth]
fixParentsLoop(P, i, defaults, indent) ==
    IF i < 0 THEN [P |-> P, depth |-> Len(defaults) - 1]
    ELSE With(matchDefaults(P.g, defaults, P.g.Tags[P.tagStack[i + 1]],
                            P.nodes[P.nodeStack[i + 2]], indent),
              LAMBDA d :
                  IF d # -1 THEN [P |-> P, depth |-> d]
                  ELSE fixParentsLoop(closeTags(P, i), i - 1, defaults, indent))

RECURSIVE openDefaults(_, _, _, _)
\* the last loop of openTag2: open defaults[i] ... defaults[1]
openDefaults(P, defaults, i, indent) ==
    IF i <= 0 THEN P
    ELSE With(newDocumentNode(P, P.g.Tags[defaults[i + 1]].Name, indent),
              LAMBDA P1 : openDefaults(pushNodeOnStack(P1, Last(P1)), defaults, i - 1, indent))

\* openTag2: P0 after closeStyles(), the missing default parents opened when fixParents
fixParents(P0, defaults, indent, fix) ==
    IF ~fix THEN P0
    ELSE With(fixParentsLoop(P0, Len(P0.tagStack) - 1, defaults, indent),
              LAMBDA fixed : openDefaults(fixed.P, defaults, fixed.depth, indent))

\* openTag2
openTag2(P, tag, node, fix) ==
    With(<<tag>> \o defaultParents(P.g, tag, Len(P.g.Tags)),
         LAMBDA defaults :
             IF fix /\ defaults[Len(defaults)] = 0 THEN [closeStyles(P) EXCEPT !.fatal = "hang"]
             ELSE [pushNodeOnStack(fixParents(closeStyles(P), defaults, P.nodes[node].Indent,
                                              fix), node)
                      EXCEPT !.secmode = P.g.Tags[tag].SectionMode])

\* openTag: the new node is Len(P.nodes) + 1
openTag(P, tag) ==
    With(parseAttributes(newDocumentNode(P, P.g.Tags[tag].Name, P.sc.indent), tag),
         LAMBDA a :
             openTag2([a.P EXCEPT !.nodes[Len(P.nodes) + 1].Attributes = a.attributes], tag,
                      Len(P.nodes) + 1, TRUE))

\* openTableCell
openTableCell(P) ==
    IF tagLevel(P, GetTag(P.g, "#tbody-cell"), GetTag(P.g, "#thead-cell")) # -1 THEN P
    ELSE With(GetTag(P.g, IF P.tableInbody THEN "#tbody-cell" ELSE "#thead-cell"),
              LAMBDA tag :
                  openTag2(newDocumentNode(P, P.g.Tags[tag].Name, P.sc.indent), tag,
                           Len(P.nodes) + 1, TRUE))

RECURSIVE isPossibleParentLoopSwapped(_, _, _, _, _, _)
\* variant of isPossibleParentLoop with the indentations of the block-scope test swapped
isPossibleParentLoopSwapped(g, pnode, child, childIndent, depth, fuel) ==
    IF child = 0 THEN -1
    ELSE LET c == g.Tags[child]
             ph == g.Tags[pnode.TagDefinition].ParentHood
         IN IF c.allowedInParentHood /\ ph = IndentParentHood /\ childIndent < pnode.Indent
            THEN depth
            ELSE IF c.allowedInParentHood
                    /\ (ph = DefaultRootParentHood \/ ph = RootParentHood)
                    /\ pnode.Indent <= childIndent
            THEN depth
            ELSE IF \E k \in 1 .. Len(c.PossibleParents) :
                        c.PossibleParents[k] = g.Tags[pnode.TagDefinition].Name
            THEN depth
            ELSE IF c.DefaultParent = Nil \/ c.DefaultParent = "#root" THEN -1
            ELSE IF fuel = 0 THEN -2
            ELSE isPossibleParentLoopSwapped(g, pnode, GetTag(g, c.DefaultParent), childIndent,
                                             depth + 1, fuel - 1)

RECURSIVE isPossibleParentLoop(_, _, _, _, _, _)
\* the loop of isPossibleParent; -2 marks a loop that never ends
isPossibleParentLoop(g, pnode, child, childIndent, depth, fuel) ==
    IF child = 0 THEN -1
    ELSE LET c == g.Tags[child]
             ph == g.Tags[pnode.TagDefinition].ParentHood
         IN IF c.allowedInParentHood /\ ph = IndentParentHood /\ pnode.Indent < childIndent
            THEN depth
            ELSE IF c.allowedInParentHood
                    /\ (ph = DefaultRootParentHood \/ ph = RootParentHood)
                    /\ pnode.Indent <= childIndent
            THEN depth
            ELSE IF \E k \in 1 .. Len(c.PossibleParents) :
                        c.PossibleParents[k] = g.Tags[pnode.TagDefinition].Name
            THEN depth
            ELSE IF c.DefaultParent = Nil \/ c.DefaultParent = "#root" THEN -1
            ELSE IF fuel = 0 THEN -2
            ELSE isPossibleParentLoop(g, pnode, GetTag(g, c.DefaultParent), childIndent,
                                      depth + 1, fuel - 1)

\* isPossibleParent
isPossibleParent(P, pnode, child, childIndent) ==
    isPossibleParentLoop(P.g, pnode, child, childIndent, 0, Len(P.g.Tags))

-----------------------------------------------------------------------------
(* Strings and YAML *)

RECURSIVE TrimLeft(_)
TrimLeft(q) == IF q # <<>> /\ Blank(Head(q)) THEN TrimLeft(Tail(q)) ELSE q

\* strings.TrimSpace
TrimSpace(q) == TrimLeft(TrimRight(q))

\* strings.HasPrefix, as the code writes it: len(s) >= n && s[:n] == prefix
HasPrefix(s, prefix) == Len(s) >= Len(prefix) /\ SubSeq(s, 1, Len(prefix)) = prefix

RECURSIVE Lines(_, _)
\* the lines of a text, without their newline
Lines(q, cur) ==
    IF q = <<>> THEN (IF cur = <<>> THEN <<>> ELSE <<cur>>)
    ELSE IF Head(q) = "\n" THEN <<cur>> \o Lines(Tail(q), <<>>)
    ELSE Lines(Tail(q), Append(cur, Head(q)))

\* one line l of a YAML block map, whose first ":" is at pos, before the lines rest
yamlLine(l, pos, rest) ==
    IF l = <<>> THEN rest
    ELSE IF pos <= 0 THEN [config |-> <<>>, err |-> "Expected a YAML map"]
    ELSE IF rest.err # "" THEN rest
    ELSE [config |-> <<<<Str(SubSeq(l, 1, pos)),
                        Str(TrimSpace(SubSeq(l, pos + 2, Len(l)))),
                        TrimSpace(SubSeq(l, pos + 2, Len(l)))>>>> \o rest.config,
          err |-> ""]

RECURSIVE yamlMap(_)
\* a YAML block map of scalars, one "key: value" per line: [config, err]; config is the
\* list of <<key, value, bytes of the value>> in the order of the text
yamlMap(ls) ==
    IF ls = <<>> THEN [config |-> <<>>, err |-> ""]
    ELSE With(TrimSpace(Head(ls)), LAMBDA l : yamlLine(l, Index(l, ":"), yamlMap(Tail(ls))))

\* parseConfig: [P, config, err]
parseConfig(P) ==
    IF P.token # "TokenConfigText" THEN [P |-> P, config |-> <<>>, err |-> ""]
    ELSE With(yamlMap(Lines(P.tokenStr, <<>>)),
              LAMBDA y : [P |-> pnext(P), config |-> y.config, err |-> y.err])

RECURSIVE codeText(_, _)
\* for ; parser.token == TokenCodeText; parser.next() { text += parser.tokenStr }
codeText(P, text) ==
    IF P.token = "TokenCodeText" THEN codeText(pnext(P), text \o P.tokenStr)
    ELSE [P |-> P, text |-> text]

\* the URLs that the resource resolver of the parser knows; the resolver is injected by the
\* caller of NewParser
Resolvable == {<<"a">>}

\* parser.resolver(r) for a resource with the URL u: the error, "" for nil; this resolver
\* leaves the URL as it is
resolver(u) == IF u \in Resolvable THEN "" ELSE "Unknown resource " \o Str(u)

SchemeLetters ==
    {"a", "b", "c", "d", "e", "f", "g", "h", "i", "j", "k", "l", "m", "n", "o", "p", "q", "r",
     "s", "t", "u", "v", "w", "x", "y", "z", "A", "B", "C", "D", "E", "F", "G", "H", "I", "J",
     "K", "L", "M", "N", "O", "P", "Q", "R", "S", "T", "U", "V", "W", "X", "Y", "Z"}

RECURSIVE getScheme(_, _)
\* net/url getScheme from offset i (counted from 1): the length of the scheme, 0 for no
\* scheme, -1 for the error "missing protocol scheme"
getScheme(u, i) ==
    IF i > Len(u) THEN 0
    ELSE IF u[i] \in SchemeLetters THEN getScheme(u, i + 1)
    ELSE IF u[i] \in {"0", "1", "2", "3", "4", "5", "6", "7", "8", "9", "+", "-", "."}
    THEN (IF i = 1 THEN 0 ELSE getScheme(u, i + 1))
    ELSE IF u[i] = ":" THEN (IF i = 1 THEN -1 ELSE i - 1)
    ELSE 0

\* url.Parse of a URL without authority, query and fragment: the reason of the error,
\* "" for nil
urlParseReason(u) ==
    IF \E i \in 1 .. Len(u) : u[i] \in {NUL, "\t", "\n", "\r"}
    THEN "net/url: invalid control character in URL"
    ELSE IF getScheme(u, 1) = -1 THEN "missing protocol scheme"
    ELSE IF /\ getScheme(u, 1) = 0 /\ (u = <<>> \/ u[1] # "/")
            /\ \E i \in 1 .. Len(u) : u[i] = ":" /\ \A j \in 1 .. i - 1 : u[j] # "/"
    THEN "first path segment in URL cannot contain colon"
    ELSE IF \E i \in 1 .. Len(u) :
                /\ u[i] = "%"
                /\ ~(i + 2 <= Len(u)
                     /\ \A j \in {i + 1, i + 2} :
                            u[j] \in {"0", "1", "2", "3", "4", "5", "6", "7", "8", "9", "a",
                                      "b", "c", "d", "e", "f", "A", "B", "C", "D", "E", "F"})
    THEN "invalid URL escape"
    ELSE ""

\* url.Parse: the error, "" for nil
urlParse(u) ==
    IF urlParseReason(u) = "" THEN ""
    ELSE "parse \"" \o Str(u) \o "\": " \o urlParseReason(u)

\* URL.IsAbs
IsAbs(u) == getScheme(u, 1) > 0

RECURSIVE URLString(_)
\* URL.String of a parsed relative URL: the path with the bytes escaped that a path
\* does not hold (the blank and the angle brackets, of the bytes of the documents)
URLString(u) ==
    IF u = <<>> THEN <<>>
    ELSE (CASE Head(u) = " " -> <<"%", "2", "0">>
            [] Head(u) = "<" -> <<"%", "3", "C">>
            [] Head(u) = ">" -> <<"%", "3", "E">>
            [] OTHER -> <<Head(u)>>) \o URLString(Tail(u))

RECURSIVE EscapeString(_)
\* html.EscapeString
EscapeString(q) ==
    IF q = <<>> THEN <<>>
    ELSE (CASE Head(q) = "&" -> <<"&", "a", "m", "p", ";">>
            [] Head(q) = "<" -> <<"&", "l", "t", ";">>
            [] Head(q) = ">" -> <<"&", "g", "t", ";">>
            [] Head(q) = "'" -> <<"&", "#", "3", "9", ";">>
            [] Head(q) = "\"" -> <<"&", "#", "3", "4", ";">>
            [] OTHER -> <<Head(q)>>) \o EscapeString(Tail(q))

RECURSIVE UnescapeString(_)
\* html.UnescapeString, for the entities amp, lt, gt and quot
UnescapeString(q) ==
    IF q = <<>> THEN <<>>
    ELSE IF HasPrefix(q, <<"&", "a", "m", "p", ";">>)
    THEN <<"&">> \o UnescapeString(SubSeq(q, 6, Len(q)))
    ELSE IF HasPrefix(q, <<"&", "l", "t", ";">>)
    THEN <<"<">> \o UnescapeString(SubSeq(q, 5, Len(q)))
    ELSE IF HasPrefix(q, <<"&", "g", "t", ";">>)
    THEN <<">">> \o UnescapeString(SubSeq(q, 5, Len(q)))
    ELSE IF HasPrefix(q, <<"&", "q", "u", "o", "t", ";">>)
    THEN <<"\"">> \o UnescapeString(SubSeq(q, 7, Len(q)))
    ELSE <<Head(q)>> \o UnescapeString(Tail(q))

RECURSIVE skipSpaces(_, _)
\* \s* of srcRegex from offset i (counted from 1): the offset of the first byte after it
skipSpaces(data, i) ==
    IF i <= Len(data) /\ data[i] \in {" ", "\t", "\n", "\r", "\f"}
    THEN skipSpaces(data, i + 1) ELSE i

RECURSIVE closingQuote(_, _)
\* [^"{}]*" of srcRegex from offset i: the offset of the closing quote, 0 for no match
closingQuote(data, i) ==
    IF i > Len(data) \/ data[i] \in {"{", "}"} THEN 0
    ELSE IF data[i] = "\"" THEN i
    ELSE closingQuote(data, i + 1)

\* the offset of the opening quote of a match of srcRegex that starts at offset i, 0 when
\* none starts there
openingQuote(data, i) ==
    IF /\ i + 3 <= Len(data) /\ data[i] \in {" ", "\t", "\n", "\r", "\f"}
       /\ SubSeq(data, i + 1, i + 3) = <<"s", "r", "c">>
    THEN With(skipSpaces(data, i + 4),
              LAMBDA eq :
                  IF eq <= Len(data) /\ data[eq] = "="
                  THEN With(skipSpaces(data, eq + 1),
                            LAMBDA quote :
                                IF quote <= Len(data) /\ data[quote] = "\"" THEN quote
                                ELSE 0)
                  ELSE 0)
    ELSE 0

RECURSIVE FindAllStringIndex(_, _)
\* srcRegex.FindAllStringIndex(data, -1) from offset i: the matches as
\* <<offset of the opening quote, offset of the closing quote>>, both counted from 1
FindAllStringIndex(data, i) ==
    IF i > Len(data) THEN <<>>
    ELSE IF openingQuote(data, i) # 0 /\ closingQuote(data, openingQuote(data, i) + 1) # 0
    THEN <<<<openingQuote(data, i), closingQuote(data, openingQuote(data, i) + 1)>>>>
         \o FindAllStringIndex(data, closingQuote(data, openingQuote(data, i) + 1) + 1)
    ELSE FindAllStringIndex(data, i + 1)

\* the URL of a match: html.UnescapeString(string(data[i : match[1]-1]))
MatchURL(data, match) == UnescapeString(SubSeq(data, match[1] + 1, match[2] - 1))

RECURSIVE resourceLoop(_, _, _, _)
\* for _, match := range matches of ParseHTMLResources, with the local variables pos and
\* newdata: [text, err]; the error of the resolver is assigned and not looked at
resourceLoop(data, matches, pos, newdata) ==
    IF matches = <<>>
    THEN [text |-> newdata \o SubSeq(data, pos + 1, Len(data)), err |-> ""]
    ELSE IF urlParse(MatchURL(data, Head(matches))) # ""
    THEN [text |-> <<>>,
          err |-> "Malformed URL in HTML: " \o urlParse(MatchURL(data, Head(matches)))]
    ELSE IF IsAbs(MatchURL(data, Head(matches)))
    THEN resourceLoop(data, Tail(matches), pos, newdata)
    ELSE resourceLoop(data, Tail(matches), Head(matches)[2] - 1,
                      newdata \o SubSeq(data, pos + 1, Head(matches)[1])
                          \o EscapeString(URLString(MatchURL(data, Head(matches)))))

\* ParseHTMLResources: [text, err]
ParseHTMLResources(data) ==
    IF FindAllStringIndex(data, 1) = <<>> THEN [text |-> data, err |-> ""]
    ELSE resourceLoop(data, FindAllStringIndex(data, 1), 0, <<>>)

\* the head of the three #define branches: switch the scanner to the YAML config
defineHead(P) ==
    pnext([P EXCEPT !.sc = skipWhitespace([P.sc EXCEPT !.mode = "modeConfig",
                                                       !.textMode = "textCode"], FALSE)])

-----------------------------------------------------------------------------
(* Parser: the cases of the token loop of parse(), each from P to P *)

\* the loop "for _, resourceURL := range js" of the keys Scripts, Styles and Resources for
\* a scalar value: the error that the branch returns, "" for none
resourceURL(u) == IF urlParse(u) # "" THEN urlParse(u) ELSE resolver(u)

RECURSIVE tagConfig(_, _)
\* for k, v := range config of the branch "#define:#", on the keys with scalar values;
\* d collects the local variables of the branch
tagConfig(config, d) ==
    IF config = <<>> \/ d.err # "" THEN d
    ELSE LET k == Head(config)[1]
             v == Head(config)[2]
             d1 == CASE k = "Parents" -> [d EXCEPT !.parents = <<v>>]
                     [] k = "Counter" -> [d EXCEPT !.counter = v]
                     [] k = "ResetCounters" -> [d EXCEPT !.resetCounters = <<v>>]
                     [] k \in {"Scripts", "Styles", "Resources"} ->
                            [d EXCEPT !.err = resourceURL(Head(config)[3])]
                     [] k = "DefaultAttrib" -> [d EXCEPT !.defattr = v]
                     [] k = "FirstChild" -> [d EXCEPT !.firstChild = (v = "true") \/ @]
                     [] k = "Parenthood" ->
                            CASE v = "none" -> [d EXCEPT !.parentHood = NoParentHood]
                              [] v = "indent" -> [d EXCEPT !.parentHood = IndentParentHood]
                              [] v = "root" -> [d EXCEPT !.parentHood = RootParentHood]
                              [] v = "default-root" ->
                                     [d EXCEPT !.parentHood = DefaultRootParentHood]
                              [] v = "text" -> [d EXCEPT !.parentHood = TextParentHood]
                              [] OTHER -> [d EXCEPT !.err = "Unknown ParentHood value: " \o v]
                     [] k = "Mode" ->
                            CASE v = "normal" -> [d EXCEPT !.secmode = sectionNormal]
                              [] v = "table" -> [d EXCEPT !.secmode = sectionTable]
                              [] v = "math" -> [d EXCEPT !.secmode = sectionMath]
                              [] v = "code" -> [d EXCEPT !.secmode = sectionCode]
                              [] v = "media" -> [d EXCEPT !.secmode = sectionMedia]
                              [] v = "paragraph" -> [d EXCEPT !.secmode = sectionParagraph]
                              [] OTHER -> [d EXCEPT !.err = "Invalid mode attribute " \o v]
                     [] OTHER -> d
         IN tagConfig(Tail(config), d1)

\* branch "#define:#": tag := &TagDefinition{...} from the local variables d
customTag(name, d, html) ==
    [Name |-> name, HTMLTemplate |-> Str(html),
     DefaultParent |-> IF Len(d.parents) > 0 THEN d.parents[1] ELSE Nil,
     SectionMode |-> d.secmode, PossibleParents |-> d.parents,
     Counter |-> d.counter, ResetCounter |-> d.resetCounters,
     DefaultAttribute |-> d.defattr, ClassShortcuts |-> {},
     ParentHood |-> d.parentHood, FirstChild |-> d.firstChild,
     allowedInParentHood |-> FALSE]

\* the three #define branches after the config: the template is read and resolved;
\* [P, text, err]
defineBody(P) ==
    With(codeText(P, <<>>),
         LAMBDA body :
             With(ParseHTMLResources(TrimSpace(body.text)),
                  LAMBDA html : [P |-> body.P, text |-> html.text, err |-> html.err]))

\* case TokenSection, branch "#define:#"
defineTag(P) ==
    With(parseConfig(defineHead(P)),
         LAMBDA c :
             IF c.err # "" THEN [c.P EXCEPT !.fatal = c.err]
             ELSE With(tagConfig(c.config,
                                 [parents |-> <<>>, counter |-> "", resetCounters |-> <<>>,
                                  defattr |-> "", firstChild |-> FALSE,
                                  parentHood |-> NoParentHood, secmode |-> sectionNormal,
                                  err |-> ""]),
                       LAMBDA d :
                           IF d.err # "" THEN [c.P EXCEPT !.fatal = d.err]
                           ELSE With(defineBody(c.P),
                                     LAMBDA html :
                                         IF html.err # ""
                                         THEN [html.P EXCEPT !.fatal = html.err]
                                         ELSE With(addCustomTag(
                                                       html.P.g,
                                                       customTag(Str(SubSeq(P.tokenStr, 9,
                                                                            Len(P.tokenStr))),
                                                                 d, html.text)),
                                                   LAMBDA added :
                                                       [html.P EXCEPT !.g = added.g,
                                                                      !.fatal = added.err]))))

RECURSIVE entityConfig(_, _)
\* for k, v := range config of the branch "#define:~"
entityConfig(config, counter) ==
    IF config = <<>> THEN counter
    ELSE entityConfig(Tail(config),
                      IF Head(config)[1] = "Counter" THEN Head(config)[2] ELSE counter)

\* Grammar.addCustomEntity
addCustomEntity(g, entity) == [g EXCEPT !.Entities = Append(@, entity)]

\* Grammar.addCustomStyle
addCustomStyle(g, style) == [g EXCEPT !.Styles = Append(@, style)]

\* Grammar.GetEntity: the index of the first definition of that name, 0 for nil
GetEntity(g, entityname) ==
    LET hits == {i \in 1 .. Len(g.Entities) : g.Entities[i].Name = entityname}
    IN IF hits = {} THEN 0 ELSE CHOOSE i \in hits : \A j \in hits : i <= j

\* Grammar.GetStyle: the index of the first definition of that name, 0 for nil
GetStyle(g, stylename) ==
    LET hits == {i \in 1 .. Len(g.Styles) : g.Styles[i].Name = stylename}
    IN IF hits = {} THEN 0 ELSE CHOOSE i \in hits : \A j \in hits : i <= j

\* case TokenSection, branch "#define:~"
defineEntity(P) ==
    With(parseConfig(defineHead(P)),
         LAMBDA c :
             IF c.err # "" THEN [c.P EXCEPT !.fatal = c.err]
             ELSE With(defineBody(c.P),
                       LAMBDA html :
                           IF html.err # "" THEN [html.P EXCEPT !.fatal = html.err]
                           ELSE [html.P EXCEPT !.g = addCustomEntity(
                                     @, [Name |-> Str(SubSeq(P.tokenStr, 10, Len(P.tokenStr))),
                                         HTMLTemplate |-> Str(html.text),
                                         Counter |-> entityConfig(c.config, "")])]))

\* case TokenSection, branch "#define:{"
defineStyle(P) ==
    With(parseConfig(defineHead(P)),
         LAMBDA c :
             IF c.err # "" THEN [c.P EXCEPT !.fatal = c.err]
             ELSE With(defineBody(c.P),
                       LAMBDA html :
                           IF html.err # "" THEN [html.P EXCEPT !.fatal = html.err]
                           ELSE [html.P EXCEPT !.g = addCustomStyle(
                                     @, [Name |-> Str(SubSeq(P.tokenStr, 10, Len(P.tokenStr))),
                                         HTMLTemplate |-> Str(html.text)])]))

\* case TokenSection, branch "#define:" with another sigil
defineError(P) ==
    [P EXCEPT !.fatal = "#define can only define tags (starting with #), entities "
                        \o "(starting with ~) and styles (starting with {)"]

\* the scanner layout that a tag's section mode selects
layoutOf(mode, layout) ==
    CASE mode = sectionTable -> "textTable"
      [] mode = sectionCode -> "textCode"
      [] mode = sectionMath -> "textMath"
      [] mode = sectionParagraph -> "textParagraph"
      [] OTHER -> layout

\* variant of tagOrParagraph that falls back to the first builtin tag
tagOrRoot(g, tagname) ==
    IF GetTag(g, tagname) = 0 THEN GetTag(g, "#root") ELSE GetTag(g, tagname)

\* case TokenSection, last branch: the definition of the tag, the one of "#p" for a name
\* that is not registered
tagOrParagraph(g, tagname) ==
    IF GetTag(g, tagname) = 0 THEN GetTag(g, "#p") ELSE GetTag(g, tagname)

\* case TokenSection, last branch: an ordinary tag; the text after a ":" in the token is
\* the value of the tag's default attribute
section(P) ==
    With(Index(P.tokenStr, ":"),
         LAMBDA pos :
             With(tagOrParagraph(P.g, Str(IF pos # -1 THEN SubSeq(P.tokenStr, 1, pos)
                                          ELSE P.tokenStr)),
                  LAMBDA tag :
                      With(openTag([P EXCEPT !.sc.textMode =
                                                 layoutOf(P.g.Tags[tag].SectionMode, @)], tag),
                           LAMBDA P1 :
                               IF P1.fatal # "" THEN P1
                               ELSE [P1 EXCEPT
                                        !.nodes[Len(P.nodes) + 1].Attributes =
                                            IF pos # -1 /\ P.g.Tags[tag].DefaultAttribute # ""
                                            THEN MapSet(@, P.g.Tags[tag].DefaultAttribute,
                                                        Str(SubSeq(P.tokenStr, pos + 2,
                                                                   Len(P.tokenStr))))
                                            ELSE @,
                                        !.tableInbody =
                                            IF P.g.Tags[tag].SectionMode = sectionTable
                                            THEN FALSE ELSE @])))

RECURSIVE enumLoopStrict(_, _, _, _, _)
\* variant of enumLoop that takes a list for a sibling only when it is indented more
enumLoopStrict(P, i, enumTag, indent, siblingEnum) ==
    IF i < 0 THEN [parentEnum |-> -1, siblingEnum |-> siblingEnum, hang |-> FALSE]
    ELSE With(isPossibleParent(P, P.nodes[P.nodeStack[i + 2]], enumTag, indent),
              LAMBDA depth :
                  IF depth = -2
                  THEN [parentEnum |-> -1, siblingEnum |-> siblingEnum, hang |-> TRUE]
                  ELSE IF depth # -1
                  THEN [parentEnum |-> i, siblingEnum |-> siblingEnum, hang |-> FALSE]
                  ELSE enumLoopStrict(P, i - 1, enumTag, indent,
                                      IF P.nodes[P.nodeStack[i + 2]].Indent > indent
                                         /\ P.g.Tags[P.tagStack[i + 1]].Name \in {"#ul", "#ol"}
                                      THEN i ELSE siblingEnum))

RECURSIVE enumLoop(_, _, _, _, _)
\* case TokenEnum, the loop over tagStack: [parentEnum, siblingEnum, hang]
enumLoop(P, i, enumTag, indent, siblingEnum) ==
    IF i < 0 THEN [parentEnum |-> -1, siblingEnum |-> siblingEnum, hang |-> FALSE]
    ELSE With(isPossibleParent(P, P.nodes[P.nodeStack[i + 2]], enumTag, indent),
              LAMBDA depth :
                  IF depth = -2
                  THEN [parentEnum |-> -1, siblingEnum |-> siblingEnum, hang |-> TRUE]
                  ELSE IF depth # -1
                  THEN [parentEnum |-> i, siblingEnum |-> siblingEnum, hang |-> FALSE]
                  ELSE enumLoop(P, i - 1, enumTag, indent,
                                IF P.nodes[P.nodeStack[i + 2]].Indent >= indent
                                   /\ P.g.Tags[P.tagStack[i + 1]].Name \in {"#ul", "#ol"}
                                THEN i ELSE siblingEnum))

\* case TokenEnum: the level that closeTags gets for the result r of the loop
enumLevel(P, enumTag, r) ==
    IF r.siblingEnum # -1
    THEN IF P.tagStack[r.siblingEnum + 1] = enumTag THEN r.siblingEnum + 1 ELSE r.siblingEnum
    ELSE IF r.parentEnum # -1 THEN r.parentEnum + 1
    ELSE 0

\* variant of enumList that uses a sibling list again whatever its kind
enumListAnyKind(P, enumTag, r) ==
    IF r.siblingEnum # -1
    THEN [closeTags(P, r.siblingEnum + 1)
             EXCEPT !.nodes[P.nodeStack[r.siblingEnum + 2]].Indent = P.sc.indent]
    ELSE With(closeTags(P, enumLevel(P, enumTag, r)),
              LAMBDA Q :
                  openTag2(newDocumentNode(Q, Q.g.Tags[enumTag].Name, P.sc.indent), enumTag,
                           Len(Q.nodes) + 1, TRUE))

\* case TokenEnum: the list container; a sibling list of the same kind is used again,
\* else a new one is opened
enumList(P, enumTag, r) ==
    With(closeTags(P, enumLevel(P, enumTag, r)),
         LAMBDA Q :
             IF r.siblingEnum # -1 /\ P.tagStack[r.siblingEnum + 1] = enumTag
             THEN [Q EXCEPT !.nodes[Q.nodeStack[r.siblingEnum + 2]].Indent = P.sc.indent]
             ELSE openTag2(newDocumentNode(Q, Q.g.Tags[enumTag].Name, P.sc.indent), enumTag,
                           Len(Q.nodes) + 1, TRUE))

\* case TokenEnum: the item "#li" in the list container that is open in P1
enumItem(P1, tag, indent) ==
    With(parseAttributes(newDocumentNode(P1, P1.g.Tags[tag].Name, indent), tag),
         LAMBDA a :
             openTag2([a.P EXCEPT !.nodes[Len(P1.nodes) + 1].Attributes = a.attributes], tag,
                      Len(P1.nodes) + 1, FALSE))

\* case TokenEnum
enum(P) ==
    With(IF P.tokenStr = <<"-">> THEN GetTag(P.g, "#ul") ELSE GetTag(P.g, "#ol"),
         LAMBDA enumTag :
             With(enumLoop(P, Len(P.tagStack) - 1, enumTag, P.sc.indent, -1),
                  LAMBDA r :
                      IF r.hang THEN [P EXCEPT !.fatal = "hang"]
                      ELSE With(enumList(P, enumTag, r),
                                LAMBDA P1 :
                                    IF P1.fatal # "" THEN P1
                                    ELSE enumItem(P1, GetTag(P.g, "#li"), P.sc.indent))))

\* if secmode == sectionTable { openTableCell() }
inTable(P) == IF P.secmode = sectionTable THEN openTableCell(P) ELSE P

\* case TokenText, the replacement: the node created last gets the text of the paragraph
\* and is opened
openWithText(Q, paragText) ==
    openTag2([Q EXCEPT !.nodes[Last(Q)].Text = paragText], Q.nodes[Last(Q)].TagDefinition,
             Last(Q), TRUE)

\* case TokenText, the replacement of a #p whose text ends with ":" by #dt and #dd
colonRewrite(P, parag) ==
    With(closeTags(P, Len(P.tagStack) - 1),
         LAMBDA P1 :
             With(openWithText(newDocumentNode(
                                   [P1 EXCEPT !.nodes = RemoveChild(@, P.nodes[parag].Parent,
                                                                    parag)],
                                   "#dt", P.nodes[parag].Indent),
                               P.nodes[parag].Text),
                  LAMBDA P4 :
                      IF P4.fatal # "" THEN P4
                      ELSE openWithText(newDocumentNode(closeTags(P4, Len(P4.tagStack) - 1),
                                                        "#dd", P.nodes[parag].Indent),
                                        P.nodes[parag].Text)))

\* variant of isTerm that looks at the text only
isTermAnyNode(P, p, str) ==
    /\ p[1] = "node"
    /\ Len(str) > 0
    /\ str[Len(str)] = ":"

\* case TokenText, the condition of the replacement: p is a node of the tag "#p", the
\* innermost open tag has paragraph mode and the text ends with ":"
isTerm(P, p, str) ==
    /\ p[1] = "node"
    /\ P.g.Tags[P.nodes[p[2]].TagDefinition].Name = "#p"
    /\ P.g.Tags[P.tagStack[Len(P.tagStack)]].SectionMode = sectionParagraph
    /\ Len(str) > 0
    /\ str[Len(str)] = ":"

\* case TokenText: the parent of the text is not a text container
needsParagraph(P, p) ==
    p[1] = "node" /\ P.g.Tags[P.nodes[p[2]].TagDefinition].ParentHood # TextParentHood

\* case TokenText: [P, p, skip]: the node p that gets the text, open in P; an implicit
\* paragraph is opened under a parent that is not a text container, unless the text is
\* blank (skip)
textParent(P1, str) ==
    IF ~needsParagraph(P1, parent(P1)) THEN [P |-> P1, p |-> parent(P1), skip |-> FALSE]
    ELSE IF Len(TrimSpace(str)) = 0 THEN [P |-> P1, p |-> parent(P1), skip |-> TRUE]
    ELSE With(newDocumentNode(P1, "#p", P1.nodes[parent(P1)[2]].Indent + 1),
              LAMBDA Q : [P |-> openTag2(Q, Q.nodes[Last(Q)].TagDefinition, Last(Q), TRUE),
                          p |-> NodeRef(Last(Q)), skip |-> FALSE])

\* case TokenText: the text is appended to t.p and a paragraph that ends with ":" replaced
textAppend(t, str) ==
    IF t.skip \/ t.P.fatal # "" THEN t.P
    ELSE With(AppendText(t.P, t.p, TextLeaf("Text", Str(str), t.p)),
              LAMBDA P3 : IF isTerm(P3, t.p, str) THEN colonRewrite(P3, t.p[2]) ELSE P3)

\* parser.next() at the end of a case, unless parse() has returned an error
advance(Q) == IF Q.fatal # "" THEN Q ELSE pnext(Q)

\* case TokenText
text(P) ==
    With(inTable(P),
         LAMBDA P1 :
             IF P1.fatal # "" \/ P1.secmode = sectionMedia THEN advance(P1)
             ELSE advance(textAppend(textParent(P1, P.tokenStr), P.tokenStr)))

\* case TokenMathText, case TokenCodeText
blockText(P, kind) ==
    With(inTable(P),
         LAMBDA P1 :
             advance(IF P1.fatal # "" \/ P1.secmode = sectionMedia THEN P1
                     ELSE AppendText(P1, parent(P1),
                                     TextLeaf(kind, Str(P.tokenStr), parent(P1)))))

\* case TokenMathText
mathText(P) == blockText(P, "Math")

\* case TokenCodeText
codeToken(P) == blockText(P, "Code")

\* case TokenStyle: the body of the loop over the attributes of the style node
styleAttribute(P, node, str, pos) ==
    IF pos # -1
    THEN [P EXCEPT !.leaves[node].Attributes =
                       MapSet(@, Str(SubSeq(str, 1, pos)), Str(SubSeq(str, pos + 2, Len(str))))]
    ELSE [P EXCEPT !.leaves[node].Attributes = MapSet(@, Str(str), "")]

RECURSIVE styleAttributes(_, _)
\* case TokenStyle: for parser.next(); parser.token == TokenValue; parser.next()
styleAttributes(P, node) ==
    With(pnext(P),
         LAMBDA Q :
             IF Q.token # "TokenValue" THEN Q
             ELSE styleAttributes(styleAttribute(Q, node, Q.tokenStr, Index(Q.tokenStr, ":")),
                                  node))

\* case TokenStyle, "*" and "_", after parser.next()
emphasis(P, p, name) ==
    IF Len(P.styleStack) > 0 /\ P.leaves[P.styleStack[Len(P.styleStack)]].Name = name
    THEN closeStyle(P, name)
    ELSE [AppendText(P, p, StyleNode(name, "", p, {}, 0))
             EXCEPT !.styleStack = Append(@, Len(P.leaves) + 1)]

\* variant of braceNode that gives the node of a style without definition the written name
braceNodeNamed(g, p, str, pos) ==
    StyleNode(Str(IF pos # -1 THEN SubSeq(str, 1, pos) ELSE str),
              IF pos # -1 THEN Str(SubSeq(str, pos + 2, Len(str))) ELSE "", p, {},
              GetStyle(g, Str(IF pos # -1 THEN SubSeq(str, 1, pos) ELSE str)))

\* case TokenStyle, "{": the style node for the token str, whose first ":" is at pos
braceNode(g, p, str, pos) ==
    IF GetStyle(g, Str(IF pos # -1 THEN SubSeq(str, 1, pos) ELSE str)) = 0
    THEN StyleNode("-css-", "", p,
                   {<<Str(IF pos # -1 THEN SubSeq(str, 1, pos) ELSE str),
                      IF pos # -1 THEN Str(SubSeq(str, pos + 2, Len(str))) ELSE "">>}, 0)
    ELSE StyleNode(Str(IF pos # -1 THEN SubSeq(str, 1, pos) ELSE str),
                   IF pos # -1 THEN Str(SubSeq(str, pos + 2, Len(str))) ELSE "", p, {},
                   GetStyle(g, Str(IF pos # -1 THEN SubSeq(str, 1, pos) ELSE str)))

\* case TokenStyle, "{", after parser.next()
brace(P, p) ==
    IF P.token # "TokenValue" THEN P
    ELSE [styleAttributes(AppendText(P, p, braceNode(P.g, p, P.tokenStr,
                                                     Index(P.tokenStr, ":"))),
                          Len(P.leaves) + 1)
             EXCEPT !.styleStack = Append(@, Len(P.leaves) + 1)]

\* case TokenStyle
style(P) ==
    With(inTable(P),
         LAMBDA P1 :
             IF P1.fatal # "" THEN P1
             ELSE With(pnext(IF P.tokenStr = <<"}">> THEN closeStyle(P1, "}") ELSE P1),
                       LAMBDA P2 :
                           IF P.tokenStr = <<"}">> THEN P2
                           ELSE IF P.tokenStr = <<"*">> \/ P.tokenStr = <<"_">>
                           THEN emphasis(P2, parent(P1), Str(P.tokenStr))
                           ELSE brace(P2, parent(P1))))

\* case TokenEntity: &EntityNode{...}
EntityNode(p, attributes, str, pos, edef, count) ==
    [kind |-> "Entity", Text |-> "", Parent |-> p,
     Name |-> Str(IF pos # -1 THEN SubSeq(str, 1, pos) ELSE str),
     Value |-> IF pos # -1 THEN Str(SubSeq(str, pos + 2, Len(str))) ELSE "",
     Attributes |-> attributes, Children |-> <<>>, Definition |-> edef, Counters |-> count]

\* case TokenEntity, after parseAttributes: a is [P, attributes]
entityNode(a, str, pos, edef) ==
    IF edef = 0 THEN a.P
    ELSE With(incCounter(a.P, a.P.g.Entities[edef].Counter),
              LAMBDA P2 : AppendText(P2, parent(a.P),
                                     EntityNode(parent(a.P), a.attributes, str, pos, edef,
                                                P2.counters)))

\* case TokenEntity
entity(P) ==
    With(inTable(P),
         LAMBDA P1 :
             IF P1.fatal # "" THEN P1
             ELSE With(parseAttributes(P1, 0),
                       LAMBDA a :
                           entityNode(a, P.tokenStr, Index(P.tokenStr, ":"),
                                      GetEntity(a.P.g,
                                                Str(IF Index(P.tokenStr, ":") # -1
                                                    THEN SubSeq(P.tokenStr, 1,
                                                                Index(P.tokenStr, ":"))
                                                    ELSE P.tokenStr)))))

\* case TokenTableCell
tableCell(P) == pnext(openTableCell(closeTableCell(P, Len(P.tokenStr))))

\* case TokenTableRow
tableRow(P) == pnext(closeTableRow(P, Len(P.tokenStr)))

\* variant of endOfFile that leaves the open tags open
endOfFileOpen(P) == closeStyles(P)

\* the statements after the token loop: closeTags(0)
endOfFile(P) == closeTags(P, 0)

-----------------------------------------------------------------------------
(* ParseMarkdown as a state machine: one step per iteration of the token loop *)

\* the parser's state as a record
Cur ==
    [sc |-> scanner, token |-> token, tokenStr |-> tokenStr, g |-> grammar,
     tagStack |-> tagStack, nodeStack |-> nodeStack, styleStack |-> styleStack,
     secmode |-> secmode, tableInbody |-> tableInbody, counters |-> counters,
     nodes |-> nodes, leaves |-> leaves, fatal |-> ""]

NoResult == [doc |-> 0, kind |-> "none", err |-> "", perr |-> ""]

\* ParseFrontmatter has not been called
NoFrontmatter == [kind |-> "none", start |-> 0, end |-> 0, config |-> <<>>, err |-> ""]

\* variant of ParseMarkdown that does not look at the errors of the scanner
ParseMarkdownParseFirst(Q) ==
    IF Q.fatal = "panic" \/ Q.fatal = "hang"
    THEN [doc |-> 0, kind |-> Q.fatal, err |-> Q.fatal, perr |-> Q.fatal]
    ELSE IF Q.fatal # "" THEN [doc |-> 0, kind |-> "parse", err |-> Q.fatal, perr |-> Q.fatal]
    ELSE [doc |-> 1, kind |-> "ok", err |-> "", perr |-> ""]

\* ParseMarkdown: what it returns once parse() has returned with the error Q.fatal (perr);
\* doc is 0 for nil, 1 for the root node; kind tells which error err is; a panic or a
\* loop that never ends returns nothing
ParseMarkdown(Q) ==
    IF Q.fatal = "panic" \/ Q.fatal = "hang"
    THEN [doc |-> 0, kind |-> Q.fatal, err |-> Q.fatal, perr |-> Q.fatal]
    ELSE IF Len(Q.sc.Errors) > 0
    THEN [doc |-> 0, kind |-> "lexical", err |-> Q.sc.Errors[1].Text, perr |-> Q.fatal]
    ELSE IF Q.fatal # "" THEN [doc |-> 0, kind |-> "parse", err |-> Q.fatal, perr |-> Q.fatal]
    ELSE [doc |-> 1, kind |-> "ok", err |-> "", perr |-> ""]

\* the next state holds Q; parse() goes on unless Q is fatal
Continue(Q) ==
    /\ scanner' = Q.sc
    /\ token' = Q.token
    /\ tokenStr' = Q.tokenStr
    /\ grammar' = Q.g
    /\ tagStack' = Q.tagStack
    /\ nodeStack' = Q.nodeStack
    /\ styleStack' = Q.styleStack
    /\ secmode' = Q.secmode
    /\ tableInbody' = Q.tableInbody
    /\ counters' = Q.counters
    /\ nodes' = Q.nodes
    /\ leaves' = Q.leaves
    /\ IF Q.fatal # ""
       THEN pc' = "done" /\ result' = ParseMarkdown(Q)
       ELSE pc' = "parse" /\ UNCHANGED result
    /\ UNCHANGED <<src, frontmatter>>

\* ParseMarkdown is called: parse() reads the first token
ParseBegin ==
    /\ pc = "new"
    /\ Continue(pnext(Cur))

IsDefine(sigil) == HasPrefix(tokenStr, <<"#", "d", "e", "f", "i", "n", "e", ":">> \o sigil)

DefineTag ==
    /\ pc = "parse" /\ token = "TokenSection" /\ IsDefine(<<"#">>)
    /\ Continue(defineTag(Cur))

DefineEntity ==
    /\ pc = "parse" /\ token = "TokenSection" /\ IsDefine(<<"~">>)
    /\ Continue(defineEntity(Cur))

DefineStyle ==
    /\ pc = "parse" /\ token = "TokenSection" /\ IsDefine(<<"{">>)
    /\ Continue(defineStyle(Cur))

DefineError ==
    /\ pc = "parse" /\ token = "TokenSection" /\ IsDefine(<<>>)
    /\ ~IsDefine(<<"#">>) /\ ~IsDefine(<<"~">>) /\ ~IsDefine(<<"{">>)
    /\ Continue(defineError(Cur))

Section ==
    /\ pc = "parse" /\ token = "TokenSection" /\ ~IsDefine(<<>>)
    /\ Continue(section(Cur))

Enum ==
    /\ pc = "parse" /\ token = "TokenEnum"
    /\ Continue(enum(Cur))

Text ==
    /\ pc = "parse" /\ token = "TokenText"
    /\ Continue(text(Cur))

MathText ==
    /\ pc = "parse" /\ token = "TokenMathText"
    /\ Continue(mathText(Cur))

CodeText ==
    /\ pc = "parse" /\ token = "TokenCodeText"
    /\ Continue(codeToken(Cur))

Style ==
    /\ pc = "parse" /\ token = "TokenStyle"
    /\ Continue(style(Cur))

Entity ==
    /\ pc = "parse" /\ token = "TokenEntity"
    /\ Continue(entity(Cur))

TableCell ==
    /\ pc = "parse" /\ token = "TokenTableCell"
    /\ Continue(tableCell(Cur))

TableRow ==
    /\ pc = "parse" /\ token = "TokenTableRow"
    /\ Continue(tableRow(Cur))

\* parse() and ParseMarkdown return with the stacks of Q
Return(Q) ==
    /\ tagStack' = Q.tagStack
    /\ nodeStack' = Q.nodeStack
    /\ styleStack' = Q.styleStack
    /\ secmode' = Q.secmode
    /\ result' = ParseMarkdown(Q)
    /\ pc' = "done"
    /\ UNCHANGED <<src, scanner, token, tokenStr, grammar, tableInbody, counters, nodes, leaves,
                   frontmatter>>

\* the token loop ends at TokenEOF; parse() and ParseMarkdown return
ParseEnd ==
    /\ pc = "parse" /\ token = "TokenEOF"
    /\ Return(endOfFile(Cur))

-----------------------------------------------------------------------------
(* Documents *)

\* - a\n
LineItem ==
    <<"-", " ", "a", "\n">>

\*  - b\n
LineItem1 ==
    <<" ", "-", " ", "b", "\n">>

\*  + c\n
LineOrdered1 ==
    <<" ", "+", " ", "c", "\n">>

\*   > q\n
LineQuote2 ==
    <<" ", " ", ">", " ", "q", "\n">>

\*    - d\n
LineItem3 ==
    <<" ", " ", " ", "-", " ", "d", "\n">>

\* \n
LineBlank ==
    <<"\n">>

\*    t:\n
LineTerm3 ==
    <<" ", " ", " ", "t", ":", "\n">>

\* #dd d:\n
LineDd ==
    <<"#", "d", "d", " ", "d", ":", "\n">>

\* #dt k\n
LineDt ==
    <<"#", "d", "t", " ", "k", "\n">>

\* #zz u\n
LineUnknown ==
    <<"#", "z", "z", " ", "u", "\n">>

LineSet ==
    {LineItem, LineItem1, LineOrdered1, LineQuote2, LineItem3,
     LineBlank, LineTerm3, LineDd, LineDt, LineUnknown}

MaxLines == 3

RECURSIVE Concat(_)
Concat(qs) == IF qs = <<>> THEN <<>> ELSE Head(qs) \o Concat(Tail(qs))

\* the documents of at most MaxLines lines of LineSet
LineDocs == {Concat(qs) : qs \in UNION {[1 .. k -> LineSet] : k \in 1 .. MaxLines}}

\* #warn;\nhello
DocWarn ==
    <<"#", "w", "a", "r", "n", ";", "\n", "h", "e", "l", "l", "o">>

\* |A|B|\n|1|2|\n\n
DocTable ==
    <<"|", "A", "|", "B", "|", "\n", "|", "1", "|", "2", "|", "\n", "\n">>

\* #table\n|A|B|\n|1|2|\n\nx
DocTableTag ==
    <<"#", "t", "a", "b", "l", "e", "\n", "|", "A", "|", "B", "|", "\n", "|", "1", "|", "2",
      "|", "\n", "\n", "x">>

\*  |A||B|\n|1|2|\n\nx
DocTableIndented ==
    <<" ", "|", "A", "|", "|", "B", "|", "\n", "|", "1", "|", "2", "|", "\n", "\n", "x">>

\* #define:#warn\nParenthood: text\n\n<b>\n\n#warn;\nhello
DocDefineWarn ==
    <<"#", "d", "e", "f", "i", "n", "e", ":", "#", "w", "a", "r", "n", "\n", "P", "a", "r",
      "e", "n", "t", "h", "o", "o", "d", ":", " ", "t", "e", "x", "t", "\n", "\n", "<", "b",
      ">", "\n", "\n", "#", "w", "a", "r", "n", ";", "\n", "h", "e", "l", "l", "o">>

\* #ul\n- a\n\n#define:#ul\nParenthood: indent\n\n<x>\n\n#ul\n- a\n- b\n
DocShadow ==
    <<"#", "u", "l", "\n", "-", " ", "a", "\n", "\n", "#", "d", "e", "f", "i", "n", "e", ":",
      "#", "u", "l", "\n", "P", "a", "r", "e", "n", "t", "h", "o", "o", "d", ":", " ", "i",
      "n", "d", "e", "n", "t", "\n", "\n", "<", "x", ">", "\n", "\n", "#", "u", "l", "\n", "-",
      " ", "a", "\n", "-", " ", "b", "\n">>

\* u\n\n#define:#p\nParenthood: text\nMode: paragraph\n\n<p>\n\n#zz v\n\nw
DocShadowP ==
    <<"u", "\n", "\n", "#", "d", "e", "f", "i", "n", "e", ":", "#", "p", "\n", "P", "a", "r",
      "e", "n", "t", "h", "o", "o", "d", ":", " ", "t", "e", "x", "t", "\n", "M", "o", "d",
      "e", ":", " ", "p", "a", "r", "a", "g", "r", "a", "p", "h", "\n", "\n", "<", "p", ">",
      "\n", "\n", "#", "z", "z", " ", "v", "\n", "\n", "w">>

\* #define:x\nab
DocDefineSigil ==
    <<"#", "d", "e", "f", "i", "n", "e", ":", "x", "\n", "a", "b">>

\* #define:#t\nParenthood: bogus\n\nT\n\n#t a
DocDefineParenthood ==
    <<"#", "d", "e", "f", "i", "n", "e", ":", "#", "t", "\n", "P", "a", "r", "e", "n", "t",
      "h", "o", "o", "d", ":", " ", "b", "o", "g", "u", "s", "\n", "\n", "T", "\n", "\n", "#",
      "t", " ", "a">>

\* #define:#t\nParents: #nope\n\nT\n\n#t a
DocDefineParents ==
    <<"#", "d", "e", "f", "i", "n", "e", ":", "#", "t", "\n", "P", "a", "r", "e", "n", "t",
      "s", ":", " ", "#", "n", "o", "p", "e", "\n", "\n", "T", "\n", "\n", "#", "t", " ", "a">>

\* #define:~e\nCounter: n\n\nE\n\n#define:{s\n\nS\n\n#p a ~e~ {s x} b} *c* _d_ ~u~ $m$ (backtick)k(backtick) {z} y
DocInline ==
    <<"#", "d", "e", "f", "i", "n", "e", ":", "~", "e", "\n", "C", "o", "u", "n", "t", "e",
      "r", ":", " ", "n", "\n", "\n", "E", "\n", "\n", "#", "d", "e", "f", "i", "n", "e", ":",
      "{", "s", "\n", "\n", "S", "\n", "\n", "#", "p", " ", "a", " ", "~", "e", "~", " ", "{",
      "s", " ", "x", "}", " ", "b", "}", " ", "*", "c", "*", " ", "_", "d", "_", " ", "~", "u",
      "~", " ", "$", "m", "$", " ", BT, "k", BT, " ", "{", "z", "}", " ", "y">>

\* #define:~e\n\nE\n\n#define:~e\n\nF\n\n#define:{s\n\nS\n\n#define:{s\n\nR\n\n#p ~e~ {s x}
DocDefineTwice ==
    <<"#", "d", "e", "f", "i", "n", "e", ":", "~", "e", "\n", "\n", "E", "\n", "\n", "#",
      "d", "e", "f", "i", "n", "e", ":", "~", "e", "\n", "\n", "F", "\n", "\n", "#", "d",
      "e", "f", "i", "n", "e", ":", "{", "s", "\n", "\n", "S", "\n", "\n", "#", "d", "e",
      "f", "i", "n", "e", ":", "{", "s", "\n", "\n", "R", "\n", "\n", "#", "p", " ", "~",
      "e", "~", " ", "{", "s", " ", "x", "}">>

\* #define:#t\nScripts: b\n\nT\n\n#t x
DocDefineScripts ==
    <<"#", "d", "e", "f", "i", "n", "e", ":", "#", "t", "\n", "S", "c", "r", "i", "p", "t",
      "s", ":", " ", "b", "\n", "\n", "T", "\n", "\n", "#", "t", " ", "x">>

\* #define:#t\n\n<i src="b">\n\n#t x
DocDefineSrc ==
    <<"#", "d", "e", "f", "i", "n", "e", ":", "#", "t", "\n", "\n", "<", "i", " ", "s", "r",
      "c", "=", "\"", "b", "\"", ">", "\n", "\n", "#", "t", " ", "x">>

\* #define:#t\nStyles: a\n\n<i src="a b">\n\n#t x
DocDefineSrcKnown ==
    <<"#", "d", "e", "f", "i", "n", "e", ":", "#", "t", "\n", "S", "t", "y", "l", "e", "s",
      ":", " ", "a", "\n", "\n", "<", "i", " ", "s", "r", "c", "=", "\"", "a", " ", "b",
      "\"", ">", "\n", "\n", "#", "t", " ", "x">>

\* #define:~e\n\n<i src="a"> <i src="h:a"> <i src=":">\n\n~e~
DocDefineSrcMalformed ==
    <<"#", "d", "e", "f", "i", "n", "e", ":", "~", "e", "\n", "\n", "<", "i", " ", "s", "r",
      "c", "=", "\"", "a", "\"", ">", " ", "<", "i", " ", "s", "r", "c", "=", "\"", "h",
      ":", "a", "\"", ">", " ", "<", "i", " ", "s", "r", "c", "=", "\"", ":", "\"", ">",
      "\n", "\n", "~", "e", "~">>

\* #define:#p\nParents: #li\nMode: paragraph\n\nP\n\n- a\n#p b:
DocTermInItem ==
    <<"#", "d", "e", "f", "i", "n", "e", ":", "#", "p", "\n", "P", "a", "r", "e", "n", "t",
      "s", ":", " ", "#", "l", "i", "\n", "M", "o", "d", "e", ":", " ", "p", "a", "r", "a",
      "g", "r", "a", "p", "h", "\n", "\n", "P", "\n", "\n", "-", " ", "a", "\n", "#", "p",
      " ", "b", ":">>

\* #p *a\n#p b {s c\n|d
DocOpenStyle ==
    <<"#", "p", " ", "*", "a", "\n", "#", "p", " ", "b", " ", "{", "s", " ", "c", "\n", "|",
      "d">>

\* #define:#f\nParents: #li\nFirstChild: true\n\nF\n\n- a\n#f b\n#f c
DocFirstChild ==
    <<"#", "d", "e", "f", "i", "n", "e", ":", "#", "f", "\n", "P", "a", "r", "e", "n", "t",
      "s", ":", " ", "#", "l", "i", "\n", "F", "i", "r", "s", "t", "C", "h", "i", "l", "d",
      ":", " ", "t", "r", "u", "e", "\n", "\n", "F", "\n", "\n", "-", " ", "a", "\n", "#",
      "f", " ", "b", "\n", "#", "f", " ", "c">>

\* #ul\n #li a
DocItemInList ==
    <<"#", "u", "l", "\n", " ", "#", "l", "i", " ", "a">>

\* #define:#f\nFirstChild: true\n\nF\n\n#root\n#p a\n#f b
DocFirstChildRoot ==
    <<"#", "d", "e", "f", "i", "n", "e", ":", "#", "f", "\n", "F", "i", "r", "s", "t", "C",
      "h", "i", "l", "d", ":", " ", "t", "r", "u", "e", "\n", "\n", "F", "\n", "\n", "#",
      "r", "o", "o", "t", "\n", "#", "p", " ", "a", "\n", "#", "f", " ", "b">>

\* #define:#s\nCounter: s\nResetCounters: bib\n\nS\n\n#define:~e\nCounter: bib\n\nE\n\n#bib a ~e~\n#s\n#bib c
DocCounters ==
    <<"#", "d", "e", "f", "i", "n", "e", ":", "#", "s", "\n", "C", "o", "u", "n", "t", "e",
      "r", ":", " ", "s", "\n", "R", "e", "s", "e", "t", "C", "o", "u", "n", "t", "e", "r",
      "s", ":", " ", "b", "i", "b", "\n", "\n", "S", "\n", "\n", "#", "d", "e", "f", "i",
      "n", "e", ":", "~", "e", "\n", "C", "o", "u", "n", "t", "e", "r", ":", " ", "b", "i",
      "b", "\n", "\n", "E", "\n", "\n", "#", "b", "i", "b", " ", "a", " ", "~", "e", "~",
      "\n", "#", "s", "\n", "#", "b", "i", "b", " ", "c">>

\* #table\n|A|\n|1|\n\n|B|\n|2|\n\nx
DocTwoTables ==
    <<"#", "t", "a", "b", "l", "e", "\n", "|", "A", "|", "\n", "|", "1", "|", "\n", "\n",
      "|", "B", "|", "\n", "|", "2", "|", "\n", "\n", "x">>

\* #table\n|A||  B||| \n\nx
DocColspan ==
    <<"#", "t", "a", "b", "l", "e", "\n", "|", "A", "|", "|", " ", " ", "B", "|", "|", "|",
      " ", "\n", "\n", "x">>

\* #p a\n\n\n#dt k
DocTwoBlank ==
    <<"#", "p", " ", "a", "\n", "\n", "\n", "#", "d", "t", " ", "k">>

\* #p *a*\n\n\n#dt k\n\nb
DocStyleBlank ==
    <<"#", "p", " ", "*", "a", "*", "\n", "\n", "\n", "#", "d", "t", " ", "k", "\n", "\n",
      "b">>

\* #p x`a\``b
DocCodeEscape ==
    <<"#", "p", " ", "x", BT, "a", "\\", BT, BT, "b">>

\*  #code\n  a\n\n  b\n c
DocCodeIndent ==
    <<" ", "#", "c", "o", "d", "e", "\n", " ", " ", "a", "\n", "\n", " ", " ", "b", "\n",
      " ", "c">>

\* #p a\n\n |b|
DocBarIndented ==
    <<"#", "p", " ", "a", "\n", "\n", " ", "|", "b", "|">>

\* #p a\n%c\nb
DocComment ==
    <<"#", "p", " ", "a", "\n", "%", "c", "\n", "b">>

\* #p a\nb
DocCommentRemoved ==
    <<"#", "p", " ", "a", "\n", "b">>

\* #define:#a\nParenthood: default-root\n\nA\n\n#a x
DocDefineDefaultRoot ==
    <<"#", "d", "e", "f", "i", "n", "e", ":", "#", "a", "\n", "P", "a", "r", "e", "n", "t",
      "h", "o", "o", "d", ":", " ", "d", "e", "f", "a", "u", "l", "t", "-", "r", "o", "o",
      "t", "\n", "\n", "A", "\n", "\n", "#", "a", " ", "x">>

\* #p *a}b
DocStyleMismatch ==
    <<"#", "p", " ", "*", "a", "}", "b">>

\* #math\nx\n\ny
DocMath ==
    <<"#", "m", "a", "t", "h", "\n", "x", "\n", "\n", "y">>

\* #code:go\nx\n\ny
DocCode ==
    <<"#", "c", "o", "d", "e", ":", "g", "o", "\n", "x", "\n", "\n", "y">>

\* hello
DocText ==
    <<"h", "e", "l", "l", "o">>

\* #dt k:
DocDtColon ==
    <<"#", "d", "t", " ", "k", ":">>

\* #dd d:
DocDdColon ==
    <<"#", "d", "d", " ", "d", ":">>

\* #dt k:\n#dd d:*b*
DocDdStyle ==
    <<"#", "d", "t", " ", "k", ":", "\n", "#", "d", "d", " ", "d", ":", "*", "b", "*">>

\*   - a\n#li b\n - c\n
DocItemTag ==
    <<" ", " ", "-", " ", "a", "\n", "#", "l", "i", " ", "b", "\n", " ", "-", " ", "c", "\n">>

ScenarioDocs ==
    {DocWarn, DocItemTag, DocTable, DocTableTag, DocTableIndented, DocDefineWarn, DocShadow,
     DocShadowP, DocDefineSigil, DocDefineParenthood, DocDefineParents, DocInline,
     DocDefineTwice, DocDefineScripts, DocDefineSrc, DocDefineSrcKnown,
     DocDefineSrcMalformed, DocTermInItem, DocOpenStyle, DocFirstChild, DocItemInList,
     DocFirstChildRoot, DocCounters, DocTwoTables, DocColspan, DocTwoBlank, DocStyleBlank,
     DocCodeEscape,
     DocCodeIndent,
     DocBarIndented,
     DocComment,
     DocCommentRemoved,
     DocDefineDefaultRoot,
     DocStyleMismatch,
     DocMath, DocCode, DocText, DocDtColon, DocDdColon, DocDdStyle}

\* the document d with the byte b put in front of offset i
Insert(d, i, b) == SubSeq(d, 1, i) \o <<b>> \o SubSeq(d, i + 1, Len(d))

BadBytes == {NUL, "x80"}

\* documents with a NUL byte or a byte that is not valid UTF-8 somewhere
BadByteDocs ==
    UNION {{Insert(d, i, b) : i \in 0 .. Len(d), b \in BadBytes} :
           d \in {DocWarn, DocDefineSigil, LineItem \o LineItem1}}

Documents == LineDocs \cup ScenarioDocs \cup BadByteDocs

Init ==
    /\ src \in Documents
    /\ scanner = NewScanner
    /\ token = "TokenEOF"
    /\ tokenStr = <<>>
    /\ grammar = NewGrammar
    /\ tagStack = <<>>
    /\ nodeStack = <<1>>
    /\ styleStack = <<>>
    /\ secmode = sectionNormal
    /\ tableInbody = FALSE
    /\ counters = {}
    /\ nodes = <<NewDocument(NewGrammar)>>
    /\ leaves = <<>>
    /\ pc = "new"
    /\ result = NoResult
    /\ frontmatter = NoFrontmatter

Next ==
    \/ ParseBegin
    \/ DefineTag
    \/ DefineEntity
    \/ DefineStyle
    \/ DefineError
    \/ Section
    \/ Enum
    \/ Text
    \/ MathText
    \/ CodeText
    \/ Style
    \/ Entity
    \/ TableCell
    \/ TableRow
    \/ ParseEnd

Spec == Init /\ [][Next]_vars

-----------------------------------------------------------------------------
(* The grammar on its own: addCustomTag called by any client, any number of times *)

MaxAdds == 3

\* a tag as the "#define:#" branch builds it from a list of parents and an attachment mode
TagOf(name, parents, parentHood) ==
    customTag(name, [parents |-> parents, counter |-> "", resetCounters |-> <<>>,
                     defattr |-> "", firstChild |-> FALSE, parentHood |-> parentHood,
                     secmode |-> sectionNormal, err |-> ""], <<"T">>)

\* the tags that the calls register: with and without parents, parents that are registered
\* or not, the attachment mode default-root, and tags that shadow the root
CustomTags ==
    {TagOf(name, parents, parentHood) :
         name \in {"#a", "#b"},
         parents \in {<<>>, <<"#a">>, <<"#ul">>, <<"#nope">>},
         parentHood \in {NoParentHood, DefaultRootParentHood}}
    \cup {TagOf("#b", <<"#ul", "#nope">>, NoParentHood),
          TagOf("#root", <<>>, NoParentHood),
          TagOf("#root", <<>>, DefaultRootParentHood)}

\* a grammar fresh from NewGrammar; no document is parsed
GrammarInit ==
    /\ src = <<>>
    /\ scanner = NewScanner
    /\ token = "TokenEOF"
    /\ tokenStr = <<>>
    /\ grammar = NewGrammar
    /\ tagStack = <<>>
    /\ nodeStack = <<1>>
    /\ styleStack = <<>>
    /\ secmode = sectionNormal
    /\ tableInbody = FALSE
    /\ counters = {}
    /\ nodes = <<NewDocument(NewGrammar)>>
    /\ leaves = <<>>
    /\ pc = "grammar"
    /\ result = NoResult
    /\ frontmatter = NoFrontmatter

\* a call of Grammar.addCustomTag; result.err is the error it returns, "" for nil
AddCustomTag ==
    /\ pc = "grammar"
    /\ Len(grammar.Tags) < Len(BuiltinTagList) + MaxAdds
    /\ \E tag \in CustomTags :
           With(addCustomTag(grammar, tag),
                LAMBDA added :
                    /\ grammar' = added.g
                    /\ result' = [doc |-> 0, kind |-> IF added.err = "" THEN "ok" ELSE "grammar",
                                  err |-> added.err, perr |-> ""])
    /\ UNCHANGED <<src, scanner, token, tokenStr, tagStack, nodeStack, styleStack, secmode,
                   tableInbody, counters, nodes, leaves, pc, frontmatter>>

GrammarNext == AddCustomTag

GrammarSpec == GrammarInit /\ [][GrammarNext]_vars

-----------------------------------------------------------------------------
(* The front matter on its own: ParseFrontmatter called on a new parser *)

RECURSIVE skipDashes(_)
\* for ; parser.s.ch == '-'; parser.s.next() { }
skipDashes(sc) == IF sc.ch = "-" THEN skipDashes(next(sc)) ELSE sc

RECURSIVE skipToSeparator(_)
\* the loop "Skip along until the separator is found"
skipToSeparator(sc) ==
    IF sc.ch = EOF THEN sc
    ELSE IF skipString(sc, yamlSeparator).ok THEN skipString(sc, yamlSeparator).sc
    ELSE skipToSeparator(next(sc))

\* the end of the front matter after the loop: the offset of the scanner at the end of
\* the file, four bytes before it otherwise
frontmatterEnd(sc) == IF sc.ch = EOF THEN sc.offset ELSE sc.offset - 4

\* ParseFrontmatter from the separator on; opened is the scanner behind the dashes and
\* the blanks of the first line, closed the scanner behind the separator that was found:
\* [sc, kind, start, end, config, err]; src[start:end] panics when start > end
frontmatterBody(opened, closed) ==
    IF opened.offset > frontmatterEnd(closed)
    THEN [sc |-> closed, kind |-> "panic", start |-> opened.offset,
          end |-> frontmatterEnd(closed), config |-> <<>>,
          err |-> "slice bounds out of range"]
    ELSE With(yamlMap(Lines(Slice(opened.offset, frontmatterEnd(closed)), <<>>)),
              LAMBDA y :
                  [sc |-> skipWhitespace(skipDashes(closed), TRUE),
                   kind |-> IF y.err # "" THEN "error" ELSE "map",
                   start |-> opened.offset, end |-> frontmatterEnd(closed),
                   config |-> y.config, err |-> y.err])

\* Parser.ParseFrontmatter: [sc, kind, start, end, config, err]; kind is "absent" for
\* the return of nil, nil at the first test
ParseFrontmatter(sc) ==
    IF ~skipString(sc, yamlSeparator).ok
    THEN [sc |-> sc, kind |-> "absent", start |-> 0, end |-> 0, config |-> <<>>, err |-> ""]
    ELSE With(skipWhitespace(skipDashes(skipString(sc, yamlSeparator).sc), FALSE),
              LAMBDA opened : frontmatterBody(opened, skipToSeparator(opened)))

\* - - - newline, and the other lines of the documents with front matter
FrontLines ==
    {<<"-", "-", "-", "\n">>, <<"-", "-", "-", "-", "\n">>, <<"-", "-", "-">>,
     <<"-", "-", "-", " ", "-", "-", "-", "\n">>, <<"k", ":", " ", "v", "\n">>,
     <<"k", ":", " ", "a", "-", "-", "-", "b", "\n">>, <<"x", "\n">>, <<"\n">>}

FrontDocs == {Concat(qs) : qs \in UNION {[1 .. k -> FrontLines] : k \in 1 .. MaxLines}}

\* a new parser on a document; ParseFrontmatter is about to be called
FrontInit ==
    /\ src \in FrontDocs
    /\ scanner = NewScanner
    /\ token = "TokenEOF"
    /\ tokenStr = <<>>
    /\ grammar = NewGrammar
    /\ tagStack = <<>>
    /\ nodeStack = <<1>>
    /\ styleStack = <<>>
    /\ secmode = sectionNormal
    /\ tableInbody = FALSE
    /\ counters = {}
    /\ nodes = <<NewDocument(NewGrammar)>>
    /\ leaves = <<>>
    /\ pc = "frontmatter"
    /\ result = NoResult
    /\ frontmatter = NoFrontmatter

\* the call of ParseFrontmatter; after it the caller has the parser for ParseMarkdown
StripFrontmatter ==
    /\ pc = "frontmatter"
    /\ With(ParseFrontmatter(scanner),
            LAMBDA fm :
                /\ scanner' = fm.sc
                /\ frontmatter' = [kind |-> fm.kind, start |-> fm.start, end |-> fm.end,
                                   config |-> fm.config, err |-> fm.err]
                /\ pc' = IF fm.kind = "panic" THEN "done" ELSE "new")
    /\ UNCHANGED <<src, token, tokenStr, grammar, tagStack, nodeStack, styleStack, secmode,
                   tableInbody, counters, nodes, leaves, result>>

FrontNext == StripFrontmatter

FrontSpec == FrontInit /\ [][FrontNext]_vars

-----------------------------------------------------------------------------
(* Vocabulary of the properties *)

\* the tag definition that node n references
Def(n) == grammar.Tags[nodes[n].TagDefinition]

\* the innermost open node
Top == nodeStack[Len(nodeStack)]

\* the elements of a sequence
Range(q) == {q[i] : i \in 1 .. Len(q)}

\* the index of the last definition named name in the list tags, 0 when there is none
LastDef(tags, name) ==
    IF \E i \in 1 .. Len(tags) : tags[i].Name = name
    THEN CHOOSE i \in 1 .. Len(tags) :
             tags[i].Name = name /\ \A j \in i + 1 .. Len(tags) : tags[j].Name # name
    ELSE 0

RECURSIVE Descends(_, _, _)
\* in the tree ns, node n lies below node a
Descends(ns, n, a) ==
    ns[n].Parent # 0 /\ (ns[n].Parent = a \/ Descends(ns, ns[n].Parent, a))

\* in the tree ns under the tags, the definition of child c names the tag of p as a
\* possible parent or as its default parent
Listed(ns, tags, c, p) ==
    LET cd == tags[ns[c].TagDefinition]
        pname == tags[ns[p].TagDefinition].Name
    IN cd.DefaultParent = pname \/ pname \in Range(cd.PossibleParents)

\* node n is a list item
Item(ns, n) == ns[n].Tag = "#li"

\* node n is a list container
Container(ns, n) == ns[n].Tag \in {"#ul", "#ol"}

\* node n was opened by a tag of the document: its text leaves are its own (the #dt and
\* #dd nodes of the colon rewrite carry the leaves of the paragraph they replace)
Explicit(n) == \A k \in 1 .. Len(nodes[n].Text) : leaves[nodes[n].Text[k]].Parent = NodeRef(n)

\* the step is an iteration of the token loop on a token of kind t
Handles(t) == pc = "parse" /\ token = t

\* the nodes that the step creates
Created == Len(nodes) + 1 .. Len(nodes')

\* no "#define:#" directive has registered a tag: the tags are the builtin ones
NoCustomTag == Len(grammar.Tags) = Len(BuiltinTagList)

\* the input has a NUL byte or a byte sequence that is not UTF-8
HasBadByte ==
    \E i \in 1 .. Len(src) :
        \/ src[i] = NUL
        \/ src[i] \in ContBytes /\ (i = 1 \/ src[i - 1] \notin LeadBytes)
        \/ src[i] \in LeadBytes /\ (i = Len(src) \/ src[i + 1] \notin ContBytes)

-----------------------------------------------------------------------------
(* C1 *)

\* C1: when parse() reaches the end of input and returns without an error, every opened
\* tag has been closed: tagStack is empty and nodeStack holds exactly the root node.
C1_StacksClosedAtEOF ==
    pc = "done" /\ result.perr = "" => tagStack = <<>> /\ nodeStack = <<1>>

\* parse() returned without an error after nodes were open two and more levels deep
C1_Witness ==
    /\ pc = "done" /\ result.perr = ""
    /\ \E n \in 1 .. Len(nodes) : nodes[n].Parent > 1
    /\ nodeStack = <<1>>

-----------------------------------------------------------------------------
(* C2 *)

\* a list marker arrives while the item of the marker of the line before is the innermost
\* open node (an item at the indentation of its container, as a marker creates it), it is
\* indented more than that item, and the tags are the builtin ones
C2_Case ==
    /\ Handles("TokenEnum") /\ NoCustomTag
    /\ Item(nodes, Top) /\ nodes[Top].Indent < scanner.indent
    /\ nodes[Top].Parent # 0
    /\ Container(nodes, nodes[Top].Parent)
    /\ nodes[nodes[Top].Parent].Indent = nodes[Top].Indent

\* C2 as the spec states it: the list container opened for the second, deeper marker is a
\* descendant of the item of the first marker.
C2_Original ==
    [][C2_Case => /\ Len(nodes') > Len(nodes)
                  /\ Descends(nodes', Len(nodes) + 1, Top)]_vars

\* C2: with the builtin tags, the list container opened for the second, deeper marker is a
\* child of the container that holds the item of the first marker and the next sibling of
\* that item;
\* the item itself gets no child node, and the new container holds the second item.
C2_NestedContainerFollowsItem ==
    [][C2_Case =>
          LET c == Len(nodes) + 1
          IN /\ Len(nodes') = Len(nodes) + 2
             /\ Container(nodes', c)
             /\ nodes'[c].Parent = nodes[Top].Parent
             /\ nodes'[c].PrevSibling = Top
             /\ nodes'[Top].NextSibling = c
             /\ nodes'[Top].Children = <<>>
             /\ nodes'[c].Indent = scanner.indent
             /\ nodes'[c].Children = <<c + 1>>
             /\ Item(nodes', c + 1)
             /\ ~Descends(nodes', c, Top)]_vars

\* a list container stands right after an item that is indented less
C2_Witness ==
    \E c \in 1 .. Len(nodes) :
        /\ NoCustomTag
        /\ Container(nodes, c)
        /\ nodes[c].PrevSibling # 0
        /\ Item(nodes, nodes[c].PrevSibling)
        /\ nodes[nodes[c].PrevSibling].Indent < nodes[c].Indent
        /\ Len(nodes[c].Children) > 0

-----------------------------------------------------------------------------
(* C3 *)

\* the definition of the list container that the marker in tokenStr asks for
EnumTag == IF tokenStr = <<"-">> THEN LastDef(grammar.Tags, "#ul") ELSE LastDef(grammar.Tags, "#ol")

\* a list marker arrives while the item of the marker of the line before is the innermost
\* open node (an item at the indentation of its container, as a marker creates it), at the
\* indentation of that item and of the kind of its container
C3_Case ==
    /\ Handles("TokenEnum") /\ Item(nodes, Top) /\ nodes[Top].Indent = scanner.indent
    /\ nodes[Top].Parent # 0
    /\ nodes[nodes[Top].Parent].TagDefinition = EnumTag
    /\ nodes[nodes[Top].Parent].Indent = nodes[Top].Indent

\* C3: a second marker of the same kind at the same indentation opens no new list
\* container: the one node it creates is an item, appended to the container of the first
\* item as the next sibling of that item.
C3_SameIndentAppendsSibling ==
    [][C3_Case =>
          LET c == Len(nodes) + 1
              list == nodes[Top].Parent
          IN /\ Len(nodes') = Len(nodes) + 1
             /\ Item(nodes', c)
             /\ nodes'[c].Parent = list
             /\ nodes'[list].Children = Append(nodes[list].Children, c)
             /\ nodes'[c].PrevSibling = Top
             /\ nodes'[Top].NextSibling = c
             /\ nodeStack' = Append(SubSeq(nodeStack, 1, Len(nodeStack) - 1), c)]_vars

\* two items of the same indentation are neighbours in one container
C3_Witness ==
    \E a \in 1 .. Len(nodes) :
        /\ Item(nodes, a)
        /\ nodes[a].NextSibling # 0
        /\ Item(nodes, nodes[a].NextSibling)
        /\ nodes[nodes[a].NextSibling].Indent = nodes[a].Indent
        /\ nodes[nodes[a].NextSibling].Parent = nodes[a].Parent

-----------------------------------------------------------------------------
(* C4 *)

Attaches(p, c) ==
    /\ c \in Range(nodes'[p].Children)
    /\ p \in Created \/ c \notin Range(nodes[p].Children)

-----------------------------------------------------------------------------
(* C5 *)

\* a text token arrives while a node opened by the tag name of the document is the
\* innermost open node, no style is open and the tags are the builtin ones
UnderExplicit(name) ==
    /\ Handles("TokenText") /\ styleStack = <<>> /\ NoCustomTag
    /\ nodes[Top].Tag = name /\ Explicit(Top)

\* the step replaces a paragraph by a definition term and a definition description
Rewrites == \E n \in Created : nodes'[n].Tag = "#dt" /\ ~Explicit(n)'

-----------------------------------------------------------------------------
(* C6 *)

\* the tag name that the directive in tokenStr defines: tokenStr[8:]
DefinedName == Str(SubSeq(tokenStr, 9, Len(tokenStr)))

\* the step is a "#define:#" directive that registers its tag
Registers == Handles("TokenSection") /\ IsDefine(<<"#">>) /\ pc' = "parse"

\* C6: when a custom tag is registered under a name that is registered already, a lookup
\* of the name returns the custom definition from then on (the definitions change in no
\* other step, and every node created later references the last definition of its
\* name), while every node created before still references the definition it was created
\* with, which is left as it was.
C6_ShadowingKeepsOldNodes ==
    [][/\ Registers /\ LastDef(grammar.Tags, DefinedName) # 0 =>
              LET custom == Len(grammar.Tags) + 1
              IN /\ Len(grammar'.Tags) = custom
                 /\ grammar'.Tags[custom].Name = DefinedName
                 /\ GetTag(grammar', DefinedName) = custom
                 /\ GetTag(grammar, DefinedName) < custom
                 /\ \A n \in 1 .. Len(nodes) :
                        /\ nodes'[n].TagDefinition = nodes[n].TagDefinition
                        /\ grammar'.Tags[nodes[n].TagDefinition]
                               = grammar.Tags[nodes[n].TagDefinition]
       /\ ~(Handles("TokenSection") /\ IsDefine(<<"#">>)) => grammar'.Tags = grammar.Tags
       /\ \A n \in Created :
              LastDef(grammar'.Tags, nodes'[n].Tag) # 0 =>
                  nodes'[n].TagDefinition = LastDef(grammar'.Tags, nodes'[n].Tag)]_vars

\* two nodes of one tag name reference two definitions: the older node the builtin one, the
\* younger node the custom one registered in between
C6_Witness ==
    \E a \in 1 .. Len(nodes) : \E b \in 1 .. Len(nodes) :
        /\ a < b
        /\ nodes[a].Tag = nodes[b].Tag
        /\ nodes[a].TagDefinition <= Len(BuiltinTagList)
        /\ nodes[b].TagDefinition > Len(BuiltinTagList)
        /\ Def(a).HTMLTemplate # Def(b).HTMLTemplate
        /\ nodes[b].TagDefinition = LastDef(grammar.Tags, nodes[b].Tag)

-----------------------------------------------------------------------------
(* C7 *)

\* C7 as the spec states it: the input "#warn;" newline "hello" yields a root with exactly
\* one child whose tag name is #warn, which has no attributes and exactly one text leaf
\* "hello".
C7_Original ==
    pc = "done" /\ src = DocWarn =>
        /\ result.doc = 1
        /\ Len(nodes[1].Children) = 1
        /\ LET n == nodes[1].Children[1]
           IN /\ nodes[n].Tag = "#warn"
              /\ nodes[n].Attributes = {}
              /\ Len(nodes[n].Text) = 1
              /\ leaves[nodes[n].Text[1]].kind = "Text"
              /\ leaves[nodes[n].Text[1]].Text = "hello"

-----------------------------------------------------------------------------
(* C8 *)

\* node n has the tag name and its text is the one text leaf txt
Cell(n, name, txt) ==
    /\ nodes[n].Tag = name
    /\ Len(nodes[n].Text) = 1
    /\ leaves[nodes[n].Text[1]].Text = txt

\* C8 as the spec states it: the input of the two rows |A|B| and |1|2| and a blank line
\* yields a table container whose first row is a header row with the header cells "A" and
\* "B", followed by a body row with the body cells "1" and "2".
C8_Original ==
    pc = "done" /\ src = DocTable =>
        \E tbl \in Range(nodes[1].Children) :
            /\ nodes[tbl].Tag = "#table"
            /\ Len(nodes[tbl].Children) = 2
            /\ LET thead == nodes[tbl].Children[1]
                   tbody == nodes[tbl].Children[2]
               IN /\ nodes[thead].Tag = "#thead" /\ Len(nodes[thead].Children) = 1
                  /\ nodes[tbody].Tag = "#tbody" /\ Len(nodes[tbody].Children) = 1
                  /\ LET hrow == nodes[nodes[thead].Children[1]]
                         brow == nodes[nodes[tbody].Children[1]]
                     IN /\ hrow.Tag = "#thead-row" /\ Len(hrow.Children) = 2
                        /\ Cell(hrow.Children[1], "#thead-cell", "A")
                        /\ Cell(hrow.Children[2], "#thead-cell", "B")
                        /\ brow.Tag = "#tbody-row" /\ Len(brow.Children) = 2
                        /\ Cell(brow.Children[1], "#tbody-cell", "1")
                        /\ Cell(brow.Children[2], "#tbody-cell", "2")

-----------------------------------------------------------------------------
(* C9 *)

\* the tag name of the section token in tokenStr: the part before the first ":"
SectionName ==
    Str(IF Index(tokenStr, ":") # -1 THEN SubSeq(tokenStr, 1, Index(tokenStr, ":")) ELSE tokenStr)

\* a section token arrives whose tag name is not registered
C9_Case ==
    Handles("TokenSection") /\ ~IsDefine(<<>>) /\ LastDef(grammar.Tags, SectionName) = 0

\* C9: a section token whose tag name is not registered never aborts the parse: a node is
\* created and attached, it is the innermost open node afterwards, and its tag definition
\* is the definition of the paragraph tag.
C9_UnknownTagFallsBack ==
    [][C9_Case =>
          /\ pc' = "parse" /\ result' = NoResult
          /\ LET n == nodeStack'[Len(nodeStack')]
             IN /\ n \in Created
                /\ nodes'[n].TagDefinition = LastDef(grammar.Tags, "#p")
                /\ nodes'[n].Parent # 0
                /\ n \in Range(nodes'[nodes'[n].Parent].Children)
                /\ tagStack'[Len(tagStack')] = LastDef(grammar.Tags, "#p")]_vars

\* the document of the one line "#zz u" is parsed to its end: the root has one child, with
\* the definition of the paragraph tag and the text of the line
C9_Witness ==
    /\ pc = "done" /\ src = LineUnknown /\ result.kind = "ok"
    /\ Len(nodes[1].Children) = 1
    /\ nodes[nodes[1].Children[1]].TagDefinition = LastDef(grammar.Tags, "#p")
    /\ Len(nodes[nodes[1].Children[1]].Text) = 1

-----------------------------------------------------------------------------
(* C10 *)

-----------------------------------------------------------------------------
(* C11 *)

\* the part of a token before its first ":", the name that the grammar is asked for
NameOf(str) == Str(IF Index(str, ":") # -1 THEN SubSeq(str, 1, Index(str, ":")) ELSE str)

\* the leaves that the step creates
CreatedLeaves == Len(leaves) + 1 .. Len(leaves')

\* an entity token arrives whose name is not registered
UnknownEntity == Handles("TokenEntity") /\ GetEntity(grammar, NameOf(tokenStr)) = 0

\* a "{" arrives and the style name that follows it is not registered
UnknownStyle ==
    /\ Handles("TokenStyle") /\ tokenStr = <<"{">>
    /\ pnext(Cur).token = "TokenValue"
    /\ GetStyle(grammar, NameOf(pnext(Cur).tokenStr)) = 0

\* C11 as the spec states it: a reference to an entity name or a style name that is not
\* registered emits no node, and parsing continues.
C11_Original ==
    [][UnknownEntity \/ UnknownStyle => CreatedLeaves = {} /\ pc' = "parse"]_vars

\* C11: a reference to an entity name that is not registered emits no node and parsing
\* continues; a reference to a style name that is not registered is not dropped: it emits
\* one style node of the name "-css-" without a definition, whose attributes hold the
\* written name, and which is open afterwards; parsing continues.
C11_UnknownEntityDroppedStyleKept ==
    [][/\ UnknownEntity =>
              /\ leaves' = leaves
              /\ \A n \in 1 .. Len(nodes) : nodes'[n].Text = nodes[n].Text
              /\ pc' = "parse"
       /\ UnknownStyle =>
              LET l == Len(leaves) + 1
              IN /\ CreatedLeaves = {l}
                 /\ leaves'[l].kind = "Style"
                 /\ leaves'[l].Name = "-css-"
                 /\ leaves'[l].Definition = 0
                 /\ \E a \in leaves'[l].Attributes : a[1] = NameOf(pnext(Cur).tokenStr)
                 /\ styleStack' # <<>> /\ styleStack'[Len(styleStack')] = l
                 /\ pc' = "parse"]_vars

\* the document with the entity "u" and the style "z", both not registered, is parsed to
\* its end: there is a style node "-css-" with the attribute z and no entity node "u"
C11_Witness ==
    /\ pc = "done" /\ src = DocInline /\ result.kind = "ok"
    /\ \E l \in 1 .. Len(leaves) :
          /\ leaves[l].kind = "Style" /\ leaves[l].Name = "-css-"
          /\ <<"z", "">> \in leaves[l].Attributes
    /\ \A l \in 1 .. Len(leaves) : leaves[l].kind = "Entity" => leaves[l].Name # "u"
    /\ \E l \in 1 .. Len(leaves) : leaves[l].kind = "Entity"

-----------------------------------------------------------------------------
(* C12 *)

\* the text of the GrammarError of addCustomTag for the tag name and its parent p that is
\* not registered; kind is "default" or "possible"
GrammarError(p, kind, name) ==
    "Unknown tag named " \o p \o " is used as " \o kind \o " parent for tag " \o name

\* the step is a "#define:#" directive that addCustomTag refuses with a GrammarError
RefusedByGrammar ==
    /\ Handles("TokenSection") /\ IsDefine(<<"#">>)
    /\ pc' = "done"
    /\ \E p \in {"#nope", "#t"} : \E kind \in {"default", "possible"} :
           result'.perr = GrammarError(p, kind, DefinedName)

\* C12 as the spec states it: when addCustomTag fails with a GrammarError because a parent
\* name is unknown, the tag is not registered and a lookup by its name returns what it
\* returned before the call.
C12_Original ==
    [][RefusedByGrammar =>
          /\ grammar'.Tags = grammar.Tags
          /\ GetTag(grammar', DefinedName) = GetTag(grammar, DefinedName)]_vars

-----------------------------------------------------------------------------
(* C13: the parent names of the registered tags *)

\* the names that tag i of the grammar gives as parents
ParentNames(g, i) ==
    (IF g.Tags[i].DefaultParent = Nil THEN {} ELSE {g.Tags[i].DefaultParent})
        \cup {g.Tags[i].PossibleParents[k] : k \in 1 .. Len(g.Tags[i].PossibleParents)}

\* C13: in every grammar state reached from the builtin grammar by calls of addCustomTag,
\* successful or failed, the default parent and every possible parent of every registered
\* tag is the name of a registered tag.
\* The code refuses a tag with an unknown parent only after it has appended the tag, so a
\* failed call leaves a registered tag whose parent name does not resolve.
C13_Original ==
    \A i \in 1 .. Len(grammar.Tags) :
        \A name \in ParentNames(grammar, i) : GetTag(grammar, name) # 0

-----------------------------------------------------------------------------
(* C14: several entities or several styles of one name *)

\* the definition registered last among those of the name of definition i
LastOfName(defs, i) ==
    CHOOSE k \in 1 .. Len(defs) :
        /\ defs[k].Name = defs[i].Name
        /\ \A j \in k + 1 .. Len(defs) : defs[j].Name # defs[i].Name

\* C14: when several entities, or several styles, are registered under one name, a lookup of
\* the name returns the one registered last.
\* GetEntity and GetStyle scan from the front and return the one registered first.
C14_Original ==
    /\ \A i \in 1 .. Len(grammar.Entities) :
           GetEntity(grammar, grammar.Entities[i].Name) = LastOfName(grammar.Entities, i)
    /\ \A i \in 1 .. Len(grammar.Styles) :
           GetStyle(grammar, grammar.Styles[i].Name) = LastOfName(grammar.Styles, i)

-----------------------------------------------------------------------------
(* C15: what the registration of a default-root tag does to the other tags *)

\* a call of addCustomTag that returned nil
Registered ==
    pc = "grammar" /\ Len(grammar'.Tags) = Len(grammar.Tags) + 1 /\ result'.err = ""

\* the tag that the call has appended
NewTag == grammar'.Tags[Len(grammar'.Tags)]

\* the call was given a tag without default parent: the tags of the calls take their
\* default parent from their list of parents
WithoutExplicitParent == NewTag.PossibleParents = <<>>

\* the name of the default-root tag registered last before the call, Nil when there is none
DefaultRootName ==
    IF grammar.currentDefaultRoot = 0 THEN Nil ELSE grammar.Tags[grammar.currentDefaultRoot].Name

\* conditions (a) and (b) of the claim for the registered tag i
Rebased(i) ==
    /\ grammar.Tags[i].DefaultParent \in {Nil, DefaultRootName}
    /\ grammar.Tags[i].ParentHood # DefaultRootParentHood
    /\ grammar.Tags[i].Name # "#root"

\* the registration of a default-root tag rewrites exactly the tags of (a) and (b)
RebaseFrame ==
    Registered /\ NewTag.ParentHood = DefaultRootParentHood
    => \A i \in 1 .. Len(grammar.Tags) :
           IF Rebased(i)
           THEN /\ grammar'.Tags[i].DefaultParent = NewTag.Name
                /\ grammar'.Tags[i].PossibleParents
                       = <<NewTag.Name>> \o grammar.Tags[i].PossibleParents
           ELSE /\ grammar'.Tags[i].DefaultParent = grammar.Tags[i].DefaultParent
                /\ grammar'.Tags[i].PossibleParents = grammar.Tags[i].PossibleParents

\* C15 as stated: ... and every tag registered afterwards without an explicit default
\* parent gets the default-root tag as default parent.
\* A tag named "#root" that is registered afterwards keeps no default parent.
C15_Original ==
    [][/\ RebaseFrame
       /\ Registered /\ DefaultRootName # Nil /\ NewTag.ParentHood # DefaultRootParentHood
          /\ WithoutExplicitParent
          => NewTag.DefaultParent = DefaultRootName]_vars

\* C15: when a default-root tag is registered, exactly the registered tags that (a) have no
\* default parent or name the previous default-root tag as default parent and (b) are
\* neither default-root tags nor named "#root" get the new tag as default parent and as
\* first possible parent; no other registered tag's default parent or possible parents
\* change; a tag not named "#root" that is registered afterwards without an explicit
\* default parent, while the new tag is the last default-root tag, gets it as default parent.
C15_DefaultRootRebase ==
    [][/\ RebaseFrame
       /\ Registered /\ DefaultRootName # Nil /\ NewTag.ParentHood # DefaultRootParentHood
          /\ WithoutExplicitParent /\ NewTag.Name # "#root"
          => NewTag.DefaultParent = DefaultRootName]_vars

\* a default-root tag is registered; an older tag was rebased to it, an older tag kept its
\* own default parent, the root kept none, and a later tag without parents was given it
C15_Witness ==
    /\ pc = "grammar" /\ grammar.currentDefaultRoot # 0
    /\ LET r == grammar.currentDefaultRoot
           name == grammar.Tags[r].Name
       IN /\ \E i \in 1 .. r - 1 :
                 /\ grammar.Tags[i].Name = "#p" /\ grammar.Tags[i].DefaultParent = name
                 /\ grammar.Tags[i].PossibleParents # <<>>
                 /\ grammar.Tags[i].PossibleParents[1] = name
          /\ \E i \in 1 .. r - 1 :
                 /\ grammar.Tags[i].Name = "#li" /\ grammar.Tags[i].DefaultParent = "#ul"
          /\ \E i \in 1 .. r - 1 :
                 /\ grammar.Tags[i].Name = "#root" /\ grammar.Tags[i].DefaultParent = Nil
          /\ \E i \in r + 1 .. Len(grammar.Tags) :
                 /\ grammar.Tags[i].PossibleParents = <<>>
                 /\ grammar.Tags[i].DefaultParent = name

-----------------------------------------------------------------------------
(* C16: the flag allowedInParentHood *)

\* the tags of g have the flag exactly when they have no default parent and are not the root
FlagOfNoDefaultParent(g) ==
    \A i \in 1 .. Len(g.Tags) :
        g.Tags[i].allowedInParentHood
            <=> (g.Tags[i].DefaultParent = Nil /\ g.Tags[i].Name # "#root")

\* C16 as stated: in every grammar state a tag has the flag allowedInParentHood exactly
\* when it has no default parent and is not named "#root".
\* The registration of a default-root tag gives a default parent to tags that keep the flag.
C16_Original == FlagOfNoDefaultParent(grammar)

\* C16: a tag has the flag allowedInParentHood exactly when it was registered without an
\* explicit default parent and is not named "#root": the builtin tags have it exactly when
\* they have no default parent, a call of addCustomTag sets it on the new tag exactly when
\* the tag came without default parent, and no call changes the flag of an older tag, also
\* when a default-root tag becomes that tag's default parent.
C16_FlagFollowsRegistration ==
    /\ (pc = "grammar" => grammar = NewGrammar /\ FlagOfNoDefaultParent(NewGrammar))
    /\ [][pc = "grammar" /\ Len(grammar'.Tags) = Len(grammar.Tags) + 1
          => /\ NewTag.allowedInParentHood
                    <=> (WithoutExplicitParent /\ NewTag.Name # "#root")
             /\ \A i \in 1 .. Len(grammar.Tags) :
                    grammar'.Tags[i].allowedInParentHood = grammar.Tags[i].allowedInParentHood]_vars

\* a default-root tag is registered: the builtin #p has it as default parent and has the
\* flag, a tag registered with a parent of its own has not
C16_Witness ==
    /\ pc = "grammar" /\ grammar.currentDefaultRoot # 0
    /\ \E i \in 1 .. Len(grammar.Tags) :
           /\ grammar.Tags[i].Name = "#p" /\ grammar.Tags[i].allowedInParentHood
           /\ grammar.Tags[i].DefaultParent = grammar.Tags[grammar.currentDefaultRoot].Name
    /\ \E i \in Len(BuiltinTagList) + 1 .. Len(grammar.Tags) :
           /\ grammar.Tags[i].DefaultParent = "#ul" /\ ~grammar.Tags[i].allowedInParentHood

-----------------------------------------------------------------------------
(* C17: resources that the resolver refuses *)

\* the step is a #define directive
Defines == Handles("TokenSection") /\ (IsDefine(<<"#">>) \/ IsDefine(<<"~">>) \/ IsDefine(<<"{">>))

\* the config of the directive and the template that follows it
DefineConfig == parseConfig(defineHead(Cur))
DefineTemplate == TrimSpace(codeText(DefineConfig.P, <<>>).text)

\* the resolver is called for a value of Scripts, Styles or Resources of a tag and returns
\* an error, and this error ends the loop over the keys
RefusedInConfig ==
    /\ Handles("TokenSection") /\ IsDefine(<<"#">>) /\ DefineConfig.err = ""
    /\ \E i \in 1 .. Len(DefineConfig.config) :
           /\ DefineConfig.config[i][1] \in {"Scripts", "Styles", "Resources"}
           /\ urlParse(DefineConfig.config[i][3]) = ""
           /\ resolver(DefineConfig.config[i][3]) # ""
           /\ result'.perr = resolver(DefineConfig.config[i][3])

\* the template is reached, its URLs are well formed, and the resolver is called for a
\* relative one of them and returns an error
RefusedInTemplate ==
    /\ Defines /\ DefineConfig.err = ""
    /\ \A i \in 1 .. Len(DefineConfig.config) :
           DefineConfig.config[i][1] \notin {"Scripts", "Styles", "Resources", "Parenthood", "Mode"}
    /\ ParseHTMLResources(DefineTemplate).err = ""
    /\ \E i \in 1 .. Len(FindAllStringIndex(DefineTemplate, 1)) :
           /\ ~IsAbs(MatchURL(DefineTemplate, FindAllStringIndex(DefineTemplate, 1)[i]))
           /\ resolver(MatchURL(DefineTemplate, FindAllStringIndex(DefineTemplate, 1)[i])) # ""

\* C17: whenever the resolver returns an error for a URL found while a #define directive is
\* handled (a value of Scripts, Styles or Resources, or a relative src URL of the
\* template), the parse ends with a fatal error, returns no tree, and the definition is not
\* registered.
\* ParseHTMLResources assigns the error of the resolver and never looks at it: the
\* definition is registered and the parse goes on.
C17_Original ==
    [][RefusedInConfig \/ RefusedInTemplate
       => /\ pc' = "done" /\ result'.kind = "parse" /\ result'.doc = 0
          /\ grammar' = grammar]_vars

-----------------------------------------------------------------------------
(* C18: the front matter *)

\* the byte at offset i (counted from 0) begins a line
LineStart(i) == i = 0 \/ src[i] = "\n"

\* a line made of three or more dashes begins at offset i
DashLine(i) ==
    /\ LineStart(i) /\ i + 3 <= Len(src)
    /\ \E j \in i + 3 .. Len(src) :
           /\ \A k \in i + 1 .. j : src[k] = "-"
           /\ (j = Len(src) \/ src[j + 1] = "\n")

\* the offsets of the lines of dashes after the first line
ClosingLines == {i \in 1 .. Len(src) : DashLine(i)}

\* the offset of the first of them
Closing == CHOOSE i \in ClosingLines : \A j \in ClosingLines : i <= j

\* C18: ParseFrontmatter takes the input to have front matter only when it begins with
\* three or more dashes; the front matter ends at the next line made of three or more
\* dashes (dashes inside a line do not end it), the body that the scanner reads next
\* begins behind that line, and input without leading dashes is not consumed at all.
\* The loop looks for the separator at every offset, so three dashes inside a line end the
\* front matter.
C18_Original ==
    frontmatter.kind # "none"
    => /\ frontmatter.kind = "absent" <=> ~HasPrefix(src, yamlSeparator)
       /\ frontmatter.kind = "absent" => scanner = NewScanner
       /\ frontmatter.kind # "absent" /\ ClosingLines # {}
          => /\ frontmatter.end \in {Closing - 1, Closing}
             /\ scanner.offset >= Closing + 3
       /\ frontmatter.kind # "absent" /\ ClosingLines = {}
          => frontmatter.end = Len(src)

-----------------------------------------------------------------------------
(* C19: the document nodes form a tree with consistent sibling links *)

RECURSIVE Below(_)
\* the node n and the nodes below it
Below(n) == {n} \cup UNION {Below(nodes[n].Children[i]) : i \in 1 .. Len(nodes[n].Children)}

\* the places <<p, i>> where node n stands in a list of children
Places(n) ==
    {pl \in (1 .. Len(nodes)) \X (1 .. Len(nodes)) :
         /\ pl[2] <= Len(nodes[pl[1]].Children)
         /\ nodes[pl[1]].Children[pl[2]] = n}

\* node n is the child number i of p and its links say so
LinkedAt(n, p, i) ==
    /\ nodes[n].Parent = p
    /\ nodes[n].PrevSibling = IF i = 1 THEN 0 ELSE nodes[p].Children[i - 1]
    /\ nodes[n].NextSibling = IF i = Len(nodes[p].Children) THEN 0 ELSE nodes[p].Children[i + 1]

\* C19: after every token that parse() has handled, each node below the root stands in the
\* list of children of exactly one node, at one place; its Parent is that node, and its
\* PrevSibling and NextSibling are its neighbours in the list (nil at the ends).
\* RemoveChild takes the paragraph out of the list and leaves NextSibling of the node
\* before it; the link is stale when the #dl that replaces the paragraph is put elsewhere.
C19_Original ==
    pc \in {"parse", "done"} /\ result.kind \notin {"panic", "hang"}
    => \A n \in Below(1) \ {1} :
           /\ Cardinality(Places(n)) = 1
           /\ \A pl \in Places(n) : LinkedAt(n, pl[1], pl[2])

-----------------------------------------------------------------------------
(* C20: the owner of a leaf *)

RECURSIVE LeavesBelow(_)
\* the leaves in the list l of a node or of a style, and the leaves below them
LeavesBelow(l) ==
    {l[i] : i \in 1 .. Len(l)} \cup UNION {LeavesBelow(leaves[l[i]].Children) : i \in 1 .. Len(l)}

\* the leaves of the document: those of the nodes below the root
ReachableLeaves == UNION {LeavesBelow(nodes[n].Text) : n \in Below(1)}

\* the nodes and styles that hold leaf l in their list, once for each place
Holders(l) ==
    {h \in {NodeRef(n) : n \in 1 .. Len(nodes)} \X (1 .. Len(leaves)) :
         /\ h[2] <= Len(nodes[h[1][2]].Text)
         /\ nodes[h[1][2]].Text[h[2]] = l}
        \cup {h \in {StyleRef(k) : k \in 1 .. Len(leaves)} \X (1 .. Len(leaves)) :
                  /\ h[2] <= Len(leaves[h[1][2]].Children)
                  /\ leaves[h[1][2]].Children[h[2]] = l}

\* C20: every leaf of the document is in the list of exactly one document node or style
\* node, and its Parent is that node.
\* The colon rewrite gives the list of the paragraph to #dt and to #dd, and the leaves keep
\* the removed paragraph as Parent.
C20_Original ==
    pc \in {"parse", "done"} /\ result.kind \notin {"panic", "hang"}
    => \A l \in ReachableLeaves :
           /\ Cardinality(Holders(l)) = 1
           /\ \A h \in Holders(l) : leaves[l].Parent = h[1]

-----------------------------------------------------------------------------
(* C21: inline styles end where a tag is opened or closed *)

RECURSIVE Owner(_, _)
\* the document node that leaf l of the leaves ls belongs to, through the styles around it
Owner(ls, l) == IF ls[l].Parent[1] = "node" THEN ls[l].Parent[2] ELSE Owner(ls, ls[l].Parent[2])

\* C21: inline styles never outlive the opening or closing of a tag: a step that opens or
\* closes a tag leaves no style open that was open before it, the open styles belong to
\* the innermost open node, and every leaf that is put into a style belongs to the node
\* that is innermost then.
C21_StylesEndAtTagBoundary ==
    /\ [](pc = "parse" => \A i \in 1 .. Len(styleStack) : Owner(leaves, styleStack[i]) = Top)
    /\ [][pc = "parse"
          => /\ nodeStack' # nodeStack \/ tagStack' # tagStack
                => \A i \in 1 .. Len(styleStack') : styleStack'[i] \in CreatedLeaves
             /\ \A l \in CreatedLeaves :
                    leaves'[l].Parent[1] = "style" /\ pc' = "parse"
                    => Owner(leaves', l) = Top']_vars

\* a tag was opened while the style "*" of the paragraph before it was still open
C21_Witness ==
    /\ pc = "parse" /\ src = DocOpenStyle /\ Len(nodeStack) = 2 /\ styleStack = <<>>
    /\ \E l \in 1 .. Len(leaves) :
          leaves[l].kind = "Style" /\ leaves[l].Children # <<>> /\ Owner(leaves, l) # Top

-----------------------------------------------------------------------------
(* C22: where an explicit tag is attached *)

\* the definition that the section token in tokenStr opens
SectionTag ==
    IF LastDef(grammar.Tags, SectionName) = 0 THEN LastDef(grammar.Tags, "#p")
    ELSE LastDef(grammar.Tags, SectionName)

RECURSIVE DefaultChain(_, _)
\* the default-parent chain of the definition d, d first, as far as fuel reaches
DefaultChain(d, fuel) ==
    LET dp == grammar.Tags[d].DefaultParent
        q == IF LastDef(grammar.Tags, dp) = 0 THEN LastDef(grammar.Tags, "#p")
             ELSE LastDef(grammar.Tags, dp)
    IN IF dp = Nil \/ dp = "#root" \/ fuel = 0 THEN <<d>>
       ELSE <<d>> \o DefaultChain(q, fuel - 1)

\* the chain D of the tag of the section token: Chain[1] is D[0]
Chain == DefaultChain(SectionTag, Len(grammar.Tags))

\* the open tag at position i of tagStack can host the definition d at the indentation of
\* the token: by the block-scope rule or as a listed possible parent
CanHost(i, d) ==
    LET t == grammar.Tags[tagStack[i]]
        n == nodes[nodeStack[i + 1]]
    IN \/ /\ grammar.Tags[d].allowedInParentHood
          /\ \/ t.ParentHood \in {DefaultRootParentHood, RootParentHood}
             \/ t.ParentHood = IndentParentHood /\ n.Indent < scanner.indent
       \/ t.Name \in Range(grammar.Tags[d].PossibleParents)

\* the positions in tagStack of the open tags that can host a member of the chain
Hosts == {i \in 1 .. Len(tagStack) : \E j \in 1 .. Len(Chain) : CanHost(i, Chain[j])}

\* the innermost of them, 0 (the root) when there is none
Host == IF Hosts = {} THEN 0 ELSE CHOOSE i \in Hosts : \A k \in Hosts : k <= i

\* the number of chain members to open: up to the first one the host can host, all of them
\* under the root
Depth ==
    IF Host = 0 THEN Len(Chain)
    ELSE CHOOSE j \in 1 .. Len(Chain) :
             CanHost(Host, Chain[j]) /\ \A k \in 1 .. j - 1 : ~CanHost(Host, Chain[k])

\* the step leaves the host and the open tags outside it open and has opened
\* D[j], ..., D[0] beneath the host, each new node with the indentation of the token
AttachedBelowHost ==
    /\ tagStack' = SubSeq(tagStack, 1, Host) \o [i \in 1 .. Depth |-> Chain[Depth + 1 - i]]
    /\ Len(nodeStack') = Host + 1 + Depth
    /\ SubSeq(nodeStack', 1, Host + 1) = SubSeq(nodeStack, 1, Host + 1)
    /\ Len(nodes') = Len(nodes) + Depth
    /\ \A i \in 1 .. Depth :
          LET c == nodeStack'[Host + 1 + i]
              p == nodeStack'[Host + i]
          IN /\ c \in Created
             /\ nodes'[c].TagDefinition = Chain[Depth + 1 - i]
             /\ nodes'[c].Indent = scanner.indent
             /\ nodes'[c].Parent = p
             /\ nodes'[p].Children # <<>>
             /\ nodes'[p].Children[Len(nodes'[p].Children)] = c

\* a section token with the name of a tag is handled and the parse goes on
OpensTag == Handles("TokenSection") /\ ~IsDefine(<<>>) /\ pc' = "parse"

\* C22 as the spec states it: the innermost open tag that can host a member D[j] of the
\* default-parent chain stays open, with the least such j; the tags inside it are closed
\* and D[j], ..., D[0] are opened beneath it with the indentation of the new node; without
\* such a tag all of the chain is opened under the root.
C22_Original == [][OpensTag => AttachedBelowHost]_vars

\* the outermost tag to open forces itself to be a first child and the host has text or
\* children already
SplitsHost ==
    /\ Host # 0
    /\ grammar.Tags[Chain[Depth]].FirstChild
    /\ Len(nodes[nodeStack[Host + 1]].Text) + Len(nodes[nodeStack[Host + 1]].Children) > 0

\* C22: the same, unless D[j] is a force-first-child tag and the host has text or
\* children already.
C22_AttachWithParentFixup == [][OpensTag /\ ~SplitsHost => AttachedBelowHost]_vars

\* a tag and its default parent have just been opened beneath an open tag that is listed
\* as a possible parent of the default parent and not of the tag, and a tag that was open
\* inside that host has been closed
C22_Witness ==
    /\ pc = "parse" /\ Len(nodeStack) >= 4
    /\ LET c == Top
           p == nodeStack[Len(nodeStack) - 1]
           h == nodeStack[Len(nodeStack) - 2]
       IN /\ nodes[c].Children = <<>> /\ nodes[c].Text = <<>>
          /\ nodes[p].Children = <<c>> /\ nodes[p].Text = <<>>
          /\ Def(c).DefaultParent = Def(p).Name
          /\ nodes[p].Indent = nodes[c].Indent
          /\ Def(h).Name \in Range(Def(p).PossibleParents)
          /\ Def(h).Name \notin Range(Def(c).PossibleParents)
          /\ nodes[p].PrevSibling # 0
          /\ nodes[p].PrevSibling \notin Range(nodeStack)

-----------------------------------------------------------------------------
(* C23: tags that force themselves to be the first child *)

\* the node n has a force-first-child tag and a parent that is not the root
ForcedFirst(ns, tags, n) ==
    tags[ns[n].TagDefinition].FirstChild /\ ns[n].Parent # 0 /\ ns[n].Parent # 1

\* C23 as the spec states it: every node of a force-first-child tag whose parent is not
\* the root is the first child of its parent, and when it was attached the parent had no
\* text; a parent that had text or children was closed and a fresh node of its tag opened
\* as its next sibling to take the node.
C23_Original ==
    [][/\ \A n \in 1 .. Len(nodes') :
              ForcedFirst(nodes', grammar'.Tags, n) =>
                  /\ nodes'[nodes'[n].Parent].Children[1] = n
                  /\ n \in Created /\ nodes'[n].Parent \notin Created =>
                         /\ nodes[nodes'[n].Parent].Text = <<>>
                         /\ nodes[nodes'[n].Parent].Children = <<>>
       /\ OpensTag /\ SplitsHost =>
              LET h == nodeStack[Host + 1]
              IN /\ h \notin Range(nodeStack')
                 /\ \E t \in Created :
                       /\ nodes'[t].TagDefinition = nodes[h].TagDefinition
                       /\ nodes'[h].NextSibling = t
                       /\ nodes'[t].Parent = nodes[h].Parent
                       /\ Len(nodes'[t].Children) = 1
                       /\ nodes'[nodes'[t].Children[1]].TagDefinition = Chain[Depth]
                       /\ nodeStack'[Host + 1] = t]_vars

-----------------------------------------------------------------------------
(* C24: the counters *)

\* the counters c without those of the names
WithoutCounters(c, names) == {e \in c : e[1] \notin Range(names)}

\* the counters c with the counter k one higher, 1 when it was absent; c for the name ""
Incremented(c, k) ==
    IF k = "" THEN c
    ELSE {e \in c : e[1] # k}
         \cup {<<k, IF \E e \in c : e[1] = k THEN (CHOOSE e \in c : e[1] = k)[2] + 1 ELSE 1>>}

RECURSIVE AncestorOrSelf(_, _, _)
\* a is b or an ancestor of b in the nodes ns
AncestorOrSelf(ns, a, b) ==
    IF a = b THEN TRUE ELSE IF ns[b].Parent = 0 THEN FALSE
    ELSE AncestorOrSelf(ns, a, ns[b].Parent)

\* a comes before b in the document after the step: as an ancestor or on the left of b
PushedBefore(a, b) ==
    \/ a # b /\ AncestorOrSelf(nodes', a, b)
    \/ \E x \in 1 .. Len(nodes') : \E y \in 1 .. Len(nodes') :
          /\ AncestorOrSelf(nodes', x, a) /\ AncestorOrSelf(nodes', y, b)
          /\ x # y /\ nodes'[x].Parent = nodes'[y].Parent /\ nodes'[x].Parent # 0
          /\ \E i \in 1 .. Len(nodes'[nodes'[x].Parent].Children) :
                \E j \in i + 1 .. Len(nodes'[nodes'[x].Parent].Children) :
                    /\ nodes'[nodes'[x].Parent].Children[i] = x
                    /\ nodes'[nodes'[x].Parent].Children[j] = y

\* the nodes that the step creates, in the order in which it pushes them
PushOrder == SortSeq([i \in 1 .. Len(nodes') - Len(nodes) |-> Len(nodes) + i], PushedBefore)

RECURSIVE CountersAfter(_)
\* the running counters after the i-th push of the step
CountersAfter(i) ==
    IF i = 0 THEN counters
    ELSE LET def == grammar'.Tags[nodes'[PushOrder[i]].TagDefinition]
         IN Incremented(WithoutCounters(CountersAfter(i - 1), def.ResetCounter), def.Counter)

\* C24: every push of a node first deletes the counters of the tag's reset list, then
\* increments the tag's own counter (1 when absent), then gives the node a copy of all
\* counters; the copy of a node never changes afterwards, whatever is pushed and whichever
\* entity counts later.
C24_CounterSnapshots ==
    [][/\ \A n \in 1 .. Len(nodes) : nodes'[n].Counters = nodes[n].Counters
       /\ \A i \in 1 .. Len(PushOrder) : nodes'[PushOrder[i]].Counters = CountersAfter(i)
       /\ ~Handles("TokenEntity") => counters' = CountersAfter(Len(PushOrder))]_vars

\* DocCounters is parsed: the first #bib node holds bib = 1 although the entity after it
\* counted bib to 2, the node of #s holds s = 1 and no bib, the last #bib node holds bib = 1
\* again
C24_Witness ==
    /\ pc = "done" /\ src = DocCounters /\ result.kind = "ok"
    /\ \E a \in 1 .. Len(nodes) : \E s \in 1 .. Len(nodes) : \E b \in 1 .. Len(nodes) :
          /\ nodes[a].NextSibling = s /\ nodes[s].NextSibling = b
          /\ nodes[a].Counters = {<<"bib", 1>>}
          /\ nodes[s].Counters = {<<"s", 1>>}
          /\ nodes[b].Counters = {<<"s", 1>>, <<"bib", 1>>}
          /\ \E l \in Range(nodes[a].Text) : leaves[l].Counters = {<<"bib", 2>>}

-----------------------------------------------------------------------------
(* C25: the header row and the body rows of a table *)

\* the node r is a header row: a #thead-row under a #thead, its cells #thead-cell
HeaderRow(r) ==
    /\ Def(r).Name = "#thead-row"
    /\ Def(nodes[r].Parent).Name = "#thead"
    /\ \A c \in Range(nodes[r].Children) : Def(c).Name = "#thead-cell"

\* the node r is a body row: a #tbody-row under a #tbody, its cells #tbody-cell
BodyRow(r) ==
    /\ Def(r).Name = "#tbody-row"
    /\ Def(nodes[r].Parent).Name = "#tbody"
    /\ \A c \in Range(nodes[r].Children) : Def(c).Name = "#tbody-cell"

\* the first row of the table container t, 0 when it has none
FirstRow(t) ==
    IF nodes[t].Children = <<>> \/ nodes[nodes[t].Children[1]].Children = <<>> THEN 0
    ELSE nodes[nodes[t].Children[1]].Children[1]

\* C25 as the spec states it: in the resulting tree the first row of every table
\* container is a header row and every other row of it is a body row.
C25_Original ==
    pc = "done" /\ result.kind = "ok" =>
        \A t \in 1 .. Len(nodes) :
            Def(t).Name = "#table" /\ nodes[t].Children # <<>> =>
                /\ FirstRow(t) # 0
                /\ HeaderRow(FirstRow(t))
                /\ \A s \in Range(nodes[t].Children) : \A r \in Range(nodes[s].Children) :
                       r # FirstRow(t) => BodyRow(r)

-----------------------------------------------------------------------------
(* C26: the column span of a table cell *)

RECURSIVE BackOverBlank(_)
\* the number of characters of src before offset i that are left when the white space
\* at their end is taken off
BackOverBlank(i) ==
    IF i > 0 /\ src[i] \in {" ", "\t", "\r", "\n"} THEN BackOverBlank(i - 1) ELSE i

RECURSIVE BarsEndingAt(_)
\* the number of consecutive "|" that end with the i-th character of src
BarsEndingAt(i) == IF i > 0 /\ src[i] = "|" THEN 1 + BarsEndingAt(i - 1) ELSE 0

\* the number of "|" of the delimiter that the scanner has just passed
DelimiterBars == BarsEndingAt(BackOverBlank(scanner.offset))

\* the node of the innermost open table cell, 0 when no cell is open
OpenCell ==
    LET cells == {i \in 1 .. Len(tagStack) :
                     grammar.Tags[tagStack[i]].Name \in {"#tbody-cell", "#thead-cell"}}
    IN IF cells = {} THEN 0
       ELSE nodeStack[(CHOOSE i \in cells : \A k \in cells : k <= i) + 1]

\* C26: a cell-delimiter or row-delimiter token that finds a table cell open closes it and
\* sets its column span to the number of consecutive "|" of the delimiter, white space
\* after them not counted.
C26_ColspanCountsBars ==
    [][(Handles("TokenTableCell") \/ Handles("TokenTableRow")) /\ OpenCell # 0
          => /\ nodes'[OpenCell].Colspan = DelimiterBars
             /\ DelimiterBars >= 1
             /\ OpenCell \notin Range(nodeStack')]_vars

\* a cell closed with the column span 3 by the delimiter "||| " at the end of a row
C26_Witness ==
    /\ src = DocColspan /\ pc = "parse"
    /\ \E c \in 1 .. Len(nodes) :
          /\ Def(c).Name = "#thead-cell" /\ nodes[c].Colspan = 3
          /\ c \notin Range(nodeStack)
          /\ nodes[c].PrevSibling # 0 /\ nodes[nodes[c].PrevSibling].Colspan = 2

-----------------------------------------------------------------------------
(* C27: what a list marker leaves open *)

\* the name of the list container of the marker in tokenStr, and of the other kind
EnumName == IF tokenStr = <<"-">> THEN "#ul" ELSE "#ol"
OtherEnumName == IF tokenStr = <<"-">> THEN "#ol" ELSE "#ul"

\* the positions in tagStack of the open list containers of the other kind that are
\* indented as much as the marker or more
OtherKindOpen ==
    {i \in 1 .. Len(tagStack) :
        /\ grammar.Tags[tagStack[i]].Name = OtherEnumName
        /\ nodes[nodeStack[i + 1]].Indent >= scanner.indent}

\* after the step the two innermost open tags are a list container of the marker's kind
\* and a new item whose parent is that container
ItemInContainer ==
    /\ Len(tagStack') >= 2
    /\ LET item == nodeStack'[Len(nodeStack')]
           list == nodeStack'[Len(nodeStack') - 1]
       IN /\ item \in Created /\ Item(nodes', item)
          /\ grammar'.Tags[nodes'[list].TagDefinition].Name = EnumName
          /\ tagStack'[Len(tagStack')] = nodes'[item].TagDefinition
          /\ tagStack'[Len(tagStack') - 1] = nodes'[list].TagDefinition
          /\ nodes'[item].Parent = list
          /\ nodes'[list].Children[Len(nodes'[list].Children)] = item

\* C27 as the spec states it: after a list marker the two innermost open tags are a list
\* container of the marker's kind and the new item, a child of that container; open list
\* containers of the other kind at the indentation of the marker or deeper are closed and
\* the container of the item is a new one.
C27_Original ==
    [][Handles("TokenEnum") /\ pc' = "parse"
          => /\ ItemInContainer
             /\ \A i \in OtherKindOpen :
                    /\ nodeStack[i + 1] \notin Range(nodeStack')
                    /\ nodeStack'[Len(nodeStack') - 1] \in Created]_vars

\* the positions in tagStack of the open tags that can host the list container of the
\* marker, by the block-scope rule or as a listed possible parent of it or of one of its
\* default parents
EnumHosts ==
    {i \in 1 .. Len(tagStack) :
        isPossibleParent(Cur, nodes[nodeStack[i + 1]], EnumTag, scanner.indent) # -1}

\* the positions of the open list containers, of either kind, that are indented as much as
\* the marker or more and lie inside every open tag that can host the container
SiblingLists ==
    {i \in 1 .. Len(tagStack) :
        /\ \A h \in EnumHosts : h < i
        /\ grammar.Tags[tagStack[i]].Name \in {"#ul", "#ol"}
        /\ nodes[nodeStack[i + 1]].Indent >= scanner.indent}

\* the outermost of them
FoundSibling == CHOOSE i \in SiblingLists : \A k \in SiblingLists : i <= k

\* C27: after a list marker the two innermost open tags are a list container of the
\* marker's kind and the new item, a child of that container. The outermost open list
\* container that is indented as much as the marker or more and lies inside every open
\* tag that can host the required container is closed, when it is of the other kind, and
\* the item gets a new container; the same when its definition is one of the required
\* tag that a directive has replaced since. When it has the current definition of the
\* required tag it is reused with the indentation of the marker and the tags inside it,
\* list containers of the other kind among them, are closed, unless the item tag forces
\* itself to be a first child.
C27_SiblingListOfOtherKindReplaced ==
    [][Handles("TokenEnum") /\ pc' = "parse"
          => /\ ItemInContainer
             /\ SiblingLists # {} =>
                    LET old == nodeStack[FoundSibling + 1]
                        list == nodeStack'[Len(nodeStack') - 1]
                    IN IF tagStack[FoundSibling] = EnumTag
                       THEN ~grammar.Tags[LastDef(grammar.Tags, "#li")].FirstChild
                            => /\ list = old
                               /\ nodes'[list].Indent = scanner.indent
                               /\ Len(nodeStack') = FoundSibling + 2
                       ELSE /\ old \notin Range(nodeStack')
                            /\ list \in Created]_vars

\* a marker "-" has closed an ordered list that was open at its indentation and has opened
\* an unordered list as the next sibling of it
C27_Witness ==
    /\ pc = "parse" /\ Len(nodeStack) >= 3 /\ Item(nodes, Top)
    /\ nodes[Top].Text = <<>>
    /\ LET list == nodes[Top].Parent
       IN /\ list = nodeStack[Len(nodeStack) - 1]
          /\ nodes[list].Tag = "#ul" /\ nodes[list].Children = <<Top>>
          /\ nodes[list].PrevSibling # 0
          /\ nodes[nodes[list].PrevSibling].Tag = "#ol"
          /\ nodes[nodes[list].PrevSibling].Indent >= nodes[list].Indent
          /\ nodes[list].PrevSibling \notin Range(nodeStack)

-----------------------------------------------------------------------------
(* C28: the replacement of a paragraph whose text ends with ":" *)

\* the step has taken the paragraph parag out of the tree and has put the term dt with the
\* text of the paragraph and the description dd, the innermost open node, into one
\* definition list
Replaced(parag, dt, dd) ==
    /\ nodes'[parag].Tag = "#p" /\ nodes'[parag].Text # <<>>
    /\ \A n \in 1 .. Len(nodes') : parag \notin Range(nodes'[n].Children)
    /\ parag \notin Range(nodeStack')
    /\ nodes'[dt].Tag = "#dt" /\ nodes'[dt].Text = nodes'[parag].Text
    /\ nodes'[dd].Tag = "#dd" /\ nodes'[dt].NextSibling = dd
    /\ nodes'[dt].Parent = nodes'[dd].Parent /\ nodes'[dt].Parent # 0
    /\ nodes'[nodes'[dt].Parent].Tag = "#dl"
    /\ dd = nodeStack'[Len(nodeStack')]
    /\ dt \notin Range(nodeStack')

\* C28 as the spec states it: the paragraph is removed and replaced by a definition term
\* with its text, followed by a definition description in the same definition list that
\* is left open and holds none of the text of the term.
C28_Original ==
    [][Rewrites =>
          \E parag \in 1 .. Len(nodes') : \E dt \in Created : \E dd \in Created :
              /\ Replaced(parag, dt, dd)
              /\ \A k \in 1 .. Len(nodes'[dd].Text) :
                     nodes'[dd].Text[k] \notin Range(nodes'[dt].Text)]_vars

-----------------------------------------------------------------------------
(* C29: nodes of text-only tags *)

\* C29 as the spec states it: a node whose tag has the attachment mode text-only has no
\* child nodes, and a tag that arrives while such a node is the innermost open node
\* closes it.
C29_Original ==
    [][/\ \A n \in 1 .. Len(nodes') :
              grammar'.Tags[nodes'[n].TagDefinition].ParentHood = TextParentHood
              => nodes'[n].Children = <<>>
       /\ (Handles("TokenSection") /\ ~IsDefine(<<>>)) \/ Handles("TokenEnum")
          => (Def(Top).ParentHood = TextParentHood /\ pc' = "parse"
              => Top \notin Range(nodeStack'))]_vars

-----------------------------------------------------------------------------
(* C30: the token after a blank line *)

WhiteSpace == {" ", "\t", "\r", "\n"}

RECURSIVE NewlinesBack(_)
\* the number of "\n" in the white space that ends before offset i of src
NewlinesBack(i) ==
    IF i > 0 /\ src[i] \in WhiteSpace
    THEN (IF src[i] = "\n" THEN 1 ELSE 0) + NewlinesBack(i - 1)
    ELSE 0

RECURSIVE SkipWhite(_)
\* the offset of the first character at or after offset i that is no white space,
\* Len(src) when there is none
SkipWhite(i) == IF i < Len(src) /\ src[i + 1] \in WhiteSpace THEN SkipWhite(i + 1) ELSE i

RECURSIVE SkipBlanks(_)
\* the same for the white space of one line
SkipBlanks(i) ==
    IF i < Len(src) /\ src[i + 1] \in {" ", "\t", "\r"} THEN SkipBlanks(i + 1) ELSE i

\* the character at offset i of src
CharAt(i) == IF i < Len(src) THEN src[i + 1] ELSE EOF

\* the scanner reads normal text: neither code nor formula nor table rows, and no
\* attributes, values or configuration
NormalText ==
    /\ scanner.textMode \in {"textNormal", "textParagraph"}
    /\ scanner.mode \in {"modeNormal", "modeNewTag"}

\* the text token that the scanner has just returned ended with a blank line
BlankLinePassed ==
    /\ token = "TokenText" /\ scanner.mode = "modeNewTag" /\ NormalText
    /\ NewlinesBack(scanner.offset) >= 2

\* the handler of the token leaves the scanner in normal text: it is no directive and no
\* tag of a table, of code or of a formula
KeepsNormalText ==
    token = "TokenSection" =>
        /\ ~IsDefine(<<>>)
        /\ grammar.Tags[SectionTag].SectionMode \in {sectionNormal, sectionParagraph}

\* the scanner stands at the end of a line that a blank line follows
BlankLineAhead ==
    /\ scanner.mode = "modeNormal" /\ NormalText /\ KeepsNormalText /\ scanner.offset > 0
    /\ CharAt(scanner.offset) = "\n"
    /\ CharAt(SkipBlanks(scanner.offset + 1)) = "\n"

\* the first character after the white space at the scanner's position
NextChar == CharAt(SkipWhite(scanner.offset))

\* the token of the next state is a section token "#p" that no text of the document
\* stands for
SyntheticParagraph ==
    /\ token' = "TokenSection" /\ tokenStr' = <<"#", "p">>
    /\ scanner'.offset <= SkipWhite(scanner.offset)

\* C30 as the spec states it: the token after a blank line in normal text is a section
\* token, a list marker or the end of the file, and it is the synthetic section token #p
\* exactly when the next character that is no white space starts neither a tag nor a
\* list marker nor a comment.
C30_Original ==
    [][pc = "parse" /\ pc' = "parse" /\ (BlankLinePassed \/ BlankLineAhead)
          => /\ token' \in {"TokenSection", "TokenEnum", "TokenEOF"}
             /\ NextChar # EOF
                => (SyntheticParagraph <=> NextChar \notin {"#", ">", "-", "+", "%"})]_vars

-----------------------------------------------------------------------------
(* C31: inline code text *)

\* the scanner stands at a backtick in normal text, and the handler of the current
\* token leaves the scanner alone
InlineCodeAhead ==
    /\ pc = "parse" /\ pc' = "parse"
    /\ token \in {"TokenText", "TokenStyle", "TokenEntity", "TokenCodeText", "TokenMathText"}
    /\ scanner.mode = "modeNormal" /\ NormalText /\ scanner.offset > 0
    /\ CharAt(scanner.offset) = BT

RECURSIVE CodeEnd(_)
\* the offset at or after offset i of the first backtick that no backslash escapes, or
\* of the end of the line
CodeEnd(i) ==
    IF CharAt(i) \in {BT, EOF, "\r", "\n"} THEN i
    ELSE IF CharAt(i) = "\\" /\ CharAt(i + 1) = BT THEN CodeEnd(i + 2)
    ELSE CodeEnd(i + 1)

RECURSIVE Unescaped(_, _)
\* the characters of src from offset i up to offset e, a backslash before a backtick
\* left out
Unescaped(i, e) ==
    IF i >= e THEN <<>>
    ELSE IF CharAt(i) = "\\" /\ CharAt(i + 1) = BT THEN <<BT>> \o Unescaped(i + 2, e)
    ELSE <<CharAt(i)>> \o Unescaped(i + 1, e)

\* C31 as the spec states it: the code text that a backtick opens ends at the first
\* following backtick that is not escaped or at the end of the line; an escaped backtick
\* is a literal backtick, and the character after it is examined like any other.
C31_Original ==
    [][InlineCodeAhead
          => With(CodeEnd(scanner.offset + 1),
                  LAMBDA e :
                      /\ token' = "TokenCodeText"
                      /\ tokenStr' = Unescaped(scanner.offset + 1, e)
                      /\ scanner'.offset = IF CharAt(e) = BT THEN e + 1 ELSE e)]_vars

-----------------------------------------------------------------------------
(* C32: the text of a code or formula layout *)

\* the current token is a tag without attributes whose definition declares the section
\* mode code or math
LayoutAhead ==
    /\ pc = "parse" /\ pc' = "parse"
    /\ token = "TokenSection" /\ ~IsDefine(<<>>) /\ scanner.mode = "modeNormal"
    /\ grammar.Tags[SectionTag].SectionMode \in {sectionCode, sectionMath}

RECURSIVE AfterBlankLine(_)
\* the offset after the first blank line at or after offset i: after the second of two
\* "\n" that only blanks separate; Len(src) when there is none
AfterBlankLine(i) ==
    IF i >= Len(src) THEN Len(src)
    ELSE IF CharAt(i) = "\n" /\ CharAt(SkipBlanks(i + 1)) = "\n" THEN SkipBlanks(i + 1) + 1
    ELSE AfterBlankLine(i + 1)

RECURSIVE LineBegin(_)
\* the offset at which the line of offset i begins
LineBegin(i) == IF i = 0 \/ src[i] = "\n" THEN i ELSE LineBegin(i - 1)

\* the column of offset i
Column(i) == i - LineBegin(i)

\* the column of the tag on the line of the scanner's position
TagColumn == Column(SkipBlanks(LineBegin(scanner.offset)))

RECURSIVE LayoutEnd(_, _)
\* the offset at or after offset i of the first character that is no white space in a
\* column up to indent; Len(src) when there is none
LayoutEnd(i, indent) ==
    IF i >= Len(src) THEN Len(src)
    ELSE IF CharAt(i) \notin WhiteSpace /\ Column(i) <= indent THEN i
    ELSE LayoutEnd(i + 1, indent)

-----------------------------------------------------------------------------
(* C33: the start of an implicit table *)

\* the scanner stands at a "|" in normal scan mode outside the table layout, and the
\* handler of the current token leaves mode and layout alone
BarAhead ==
    /\ pc = "parse" /\ pc' = "parse"
    /\ token \in {"TokenSection", "TokenText", "TokenStyle", "TokenEntity", "TokenCodeText",
                  "TokenMathText"}
    /\ scanner.mode = "modeNormal" /\ NormalText /\ KeepsNormalText /\ scanner.offset > 0
    /\ CharAt(scanner.offset) = "|"

\* only spaces, tabs or carriage returns lie between the start of the line and offset i
FirstOfLine(i) == SkipBlanks(LineBegin(i)) >= i

\* C33 as the spec states it: in normal scan mode outside the table layout a "|" starts
\* the table layout exactly when it is the first character of its line that is no blank,
\* on whatever line it stands.
C33_Original ==
    [][BarAhead => (token' \in {"TokenTableCell", "TokenTableRow"}
                    <=> FirstOfLine(scanner.offset))]_vars

-----------------------------------------------------------------------------
(* C34: a comment line between two lines of text *)

\* the tokens of DocCommentRemoved, the document DocComment without its comment line
TokensWithoutComment ==
    << <<"TokenSection", <<"#", "p">> >>, <<"TokenText", <<"a", "\n", "b">> >>,
       <<"TokenEOF", <<>> >> >>

\* the step reads the k-th token of the sequence ts
ReadsToken(ts, k) ==
    /\ k \in 1 .. Len(ts) /\ <<token', tokenStr'>> = ts[k]
    /\ IF k = 1 THEN pc = "new" ELSE pc = "parse" /\ <<token, tokenStr>> = ts[k - 1]

\* C34 as the spec states it, for a comment line between two lines of text: the scanner
\* emits no token for the comment, and the tokens of the input are those of the input
\* without the comment line.
C34_Original ==
    [][pc' = "parse" /\ src \in {DocComment, DocCommentRemoved}
          => (\E k \in 1 .. Len(TokensWithoutComment) :
                 ReadsToken(TokensWithoutComment, k))]_vars

-----------------------------------------------------------------------------
(* C35: the first character of the input *)

\* the character c is ordinary text: no white space, no start of a tag, a list marker or
\* a comment, no inline markup and no byte that the scanner reports
OrdinaryText(c) ==
    /\ c \notin WhiteSpace /\ ~TagStart(c) /\ ~NotASCII(c)
    /\ c \notin {"{", "}", "~", BT, "$", "_", "*", "|", "\\", NUL, EOF}

\* the current token is the synthetic section token of an input that begins with
\* ordinary text
SyntheticFirst ==
    /\ pc = "parse" /\ token = "TokenSection" /\ tokenStr = <<"#", "p">>
    /\ scanner.offset = 0 /\ OrdinaryText(CharAt(0))

\* C35 as the spec states it: no character is skipped at the start of scanning; for an
\* input whose first character is ordinary text the synthetic section token #p is
\* followed by a text token that begins with that first character.
C35_Original ==
    [][SyntheticFirst /\ pc' = "parse"
          => token' = "TokenText" /\ tokenStr' # <<>> /\ tokenStr'[1] = src[1]]_vars

-----------------------------------------------------------------------------
(* C36: the chain of default parents ends *)

RECURSIVE ReachesChainEnd(_, _)
\* following default parents by name from the definition i, as openTag2 does (a name
\* that is not registered stands for "#p"), reaches "#root" or a definition without
\* default parent in at most fuel steps
ReachesChainEnd(i, fuel) ==
    LET dp == grammar.Tags[i].DefaultParent
    IN IF dp = Nil \/ dp = "#root" THEN TRUE
       ELSE IF fuel = 0 THEN FALSE
       ELSE ReachesChainEnd(IF LastDef(grammar.Tags, dp) = 0 THEN LastDef(grammar.Tags, "#p")
                            ELSE LastDef(grammar.Tags, dp), fuel - 1)

\* C36 as the spec states it: in every grammar that calls of addCustomTag build from the
\* builtin grammar, following default parents by name from any tag reaches the root or
\* a tag without default parent; no tag is its own default-parent ancestor.
C36_Original ==
    pc = "grammar" => \A i \in 1 .. Len(grammar.Tags) : ReachesChainEnd(i, Len(grammar.Tags))

-----------------------------------------------------------------------------
(* C37: the parse terminates *)

\* parse() has a token to handle: the states in which a step of Next can be taken (the
\* guards of the actions; the handlers are total)
Running ==
    \/ pc = "new"
    \/ /\ pc = "parse"
       /\ token \in {"TokenSection", "TokenEnum", "TokenText", "TokenMathText",
                     "TokenCodeText", "TokenStyle", "TokenEntity", "TokenTableCell",
                     "TokenTableRow", "TokenEOF"}

\* weak fairness of Next, written with the state predicate Running for
\* ENABLED <<Next>>_vars
Progress == []<>(~Running) \/ []<><<Next>>_vars

\* the parser takes its steps: ParseMarkdown is one sequential call that runs until it
\* returns
LiveSpec == Init /\ [][Next]_vars /\ WF_vars(ParseEnd) /\ Progress

\* C37 as the spec states it: for every input, directives that define tags included, the
\* parse ends and returns a tree or an error. (The result kind "hang" stands for a loop
\* of the resolver that does not end.)
C37_Original == <>(pc = "done" /\ result.kind \in {"ok", "lexical", "parse"})

-----------------------------------------------------------------------------
(* C38: the cells of an explicit table *)

\* the documents that hold one table, opened by the tag "#table" on a line of its own
ExplicitTableDocs == {DocTableTag, DocColspan}

RECURSIVE BarRuns(_)
\* the number of runs of "|" from offset i to the end of the line
BarRuns(i) ==
    IF CharAt(i) \in {"\n", EOF} THEN 0
    ELSE (IF CharAt(i) = "|" /\ CharAt(i + 1) # "|" THEN 1 ELSE 0) + BarRuns(i + 1)

RECURSIVE TableLinesFrom(_)
\* the offsets at or after offset i of the lines that begin with "|", in their order
TableLinesFrom(i) ==
    IF i >= Len(src) THEN <<>>
    ELSE (IF LineStart(i) /\ CharAt(i) = "|" THEN <<i>> ELSE <<>>) \o TableLinesFrom(i + 1)

\* the rows of the table t, header rows first
RowsOf(t) == Concat([k \in 1 .. Len(nodes[t].Children) |-> nodes[nodes[t].Children[k]].Children])

\* C38 as the spec states it: in a table opened by an explicit tag on a line of its own,
\* every row has exactly one cell for each field that the "|" of its source line
\* delimit; text of white space only between the tag and the first "|" or between the
\* rows creates no cell.
C38_Original ==
    pc = "done" /\ src \in ExplicitTableDocs =>
        \E t \in Range(nodes[1].Children) :
            /\ nodes[t].Tag = "#table"
            /\ Len(RowsOf(t)) = Len(TableLinesFrom(0))
            /\ \A k \in 1 .. Len(RowsOf(t)) :
                   Len(nodes[RowsOf(t)[k]].Children) = BarRuns(TableLinesFrom(0)[k]) - 1

-----------------------------------------------------------------------------
(* C39: closing tokens of inline styles *)

\* the token that opened the style node l: the name of the node for "*" and "_", "{" for
\* the others
OpenerOf(l) == IF leaves[l].Name \in {"*", "_"} THEN leaves[l].Name ELSE "{"

\* the token that closes a style opened by the token c
CloserOf(c) == IF c = "{" THEN "}" ELSE c

\* the current token is a style token that closes a style: "}", or "*" or "_" while the
\* innermost open style has that name; outside of tables, where a style token may open a
\* cell first
ClosingToken ==
    /\ pc = "parse" /\ pc' = "parse" /\ token = "TokenStyle" /\ secmode # sectionTable
    /\ \/ tokenStr = <<"}">>
       \/ /\ tokenStr \in {<<"*">>, <<"_">>} /\ styleStack # <<>>
          /\ leaves[styleStack[Len(styleStack)]].Name = tokenStr[1]

\* C39 as the spec states it: a closing token takes the innermost open style from the
\* style stack only if the corresponding token opened that style, "}" for "{", "*" for
\* "*", "_" for "_"; otherwise it leaves the style stack unchanged.
C39_Original ==
    [][ClosingToken
          => styleStack' = IF styleStack # <<>>
                              /\ CloserOf(OpenerOf(styleStack[Len(styleStack)])) = tokenStr[1]
                           THEN SubSeq(styleStack, 1, Len(styleStack) - 1)
                           ELSE styleStack]_vars

====
